---- MODULE Spec2Model ----
(***************************************************************************)
(* The retrieval/caching layer of the resume backend:                      *)
(*   src/src/backend/boundary/databases/vdb/engine.py                      *)
(*   src/src/backend/core/pipelines/cv_analysis/flow/document_processing_flow.py *)
(*   src/src/backend/core/pipelines/cv_analysis/core/document_processor.py *)
(*   src/speed_test.py (the reset of the four caches)                      *)
(*                                                                         *)
(* Every Python function is an operator on a process record `s` (the four  *)
(* module globals, the heap of objects, the vector database and the trace  *)
(* of the external calls made by the running handler) that returns the     *)
(* record after the call; a raised exception is the field `exc`, and the   *)
(* statements after a raise are skipped.  One action runs one whole call.  *)
(***************************************************************************)
EXTENDS Integers, Sequences, FiniteSets, TLC

VARIABLES
    embedding_cache,  \* engine.py:15  model name -> handle (index into handles)
    client_cache,     \* engine.py:16  cache key  -> client (index into clients)
    query_cache,      \* engine.py:17  cache key  -> list of Documents
    prewarmed,        \* engine.py:18
    handles,          \* every HuggingFaceEmbeddings instance ever built, in order
    clients,          \* every LangchainPgVectorClient instance ever built, in order
    store,            \* the vector database: <<connection, collection>> -> rows
    mark,             \* heap sizes at the last clearing of the caches
    last,             \* the call that ran last: its name, its exception, the external
                      \* calls it made, the number of clients it built, and the
                      \* prewarm flag it started with
    future,           \* the future of the asyncio.to_thread call of
                      \* fetch_context_async: its state, the queries given to
                      \* the worker thread, and the outcome the worker left
    users,            \* models.py:21  the rows of the table users, in the order
                      \* of their insertion
    resumes,          \* models.py:37  the table resumes: id -> row
    threads,          \* the worker threads that run fetch_context step by step:
                      \* the statement each is at and its local variables
    high              \* the largest number of documents a fetch_context call of
                      \* a worker thread has returned so far

vars == <<embedding_cache, client_cache, query_cache, prewarmed,
          handles, clients, store, mark, last, future, users, resumes,
          threads, high>>

----------------------------------------------------------------------------
(* Bounds of the model *)

MaxHandles == 2
MaxClients == 2
MaxDocs == 2
MaxEmailLen == 3
MaxUsers == 2

(* Program constants *)

DefaultModel == "sentence-transformers/all-MiniLM-L6-v2"
ProcessorModel == "intfloat/e5-large-v2"
DefaultCollection == "cv_documents"
EnvUrl == "postgresql://db"
DefaultK == 5

(* Inputs: the values the callers of the two specifications pass *)

Models == {DefaultModel, ProcessorModel}
OtherCollection == "cv_documents:eu"
OtherUrl == "eu:postgresql://db"
Collections == {DefaultCollection, OtherCollection}
Urls == {EnvUrl, OtherUrl}
Pairs == {<<DefaultCollection, EnvUrl>>, <<DefaultCollection, OtherUrl>>,
          <<OtherCollection, EnvUrl>>}
Queries == {"Go", "eu:Go"}
Ks == {1, 2}
InputDocs == { [content |-> "Go developer"],
               [content |-> "eu analyst", metadata |-> "b.pdf"] }
DocLists == { <<d>> : d \in InputDocs }
QueryLists == {<<>>} \cup { <<q>> : q \in Queries }
                     \cup { <<p, q>> : p \in Queries, q \in Queries }
BatchLists == {<<>>, <<"Go", "eu:Go">>, <<"eu:Go", "Go">>, <<"Go", "Go">>}
RepeatLists == {<<"Go">>, <<"eu:Go", "Go">>, <<"Go", "eu:Go", "Go">>}
ModelLists == { <<>>, <<DefaultModel>>, <<ProcessorModel>>,
                <<ProcessorModel, DefaultModel>> }
\* an optional argument: None or <<value>>
Optional(S) == {<<>>} \cup { <<x>> : x \in S }

None == <<>>
NoExc == "none"
EmptyMap == [x \in {} |-> None]

----------------------------------------------------------------------------
(* The vector database and the embedding library (external collaborators) *)

\* Document(page_content=doc["content"], metadata=doc.get("metadata", {}))
Document(doc) ==
    [page_content |-> doc.content,
     metadata |-> IF "metadata" \in DOMAIN doc THEN doc.metadata ELSE ""]

\* The rows a query text is close to, by their content.
Mentions(query, content) ==
    \/ query = "Go" /\ content = "Go developer"
    \/ query = "eu:Go" /\ content \in {"Go developer", "eu analyst"}

\* similarity_search(query, k): the k nearest rows, nearest first; rows at the
\* same distance in insertion order.
SimilaritySearch(rows, query, k) ==
    LET near(d) == Mentions(query, d.page_content)
        far(d) == ~Mentions(query, d.page_content)
        ranked == SelectSeq(rows, near) \o SelectSeq(rows, far)
    IN  SubSeq(ranked, 1, IF k < Len(ranked) THEN k ELSE Len(ranked))

\* The exception an external call raises.
ErrorOf(call) ==
    CASE call = "load" -> "ModelLoadError"
      [] call = "embed_query" -> "ModelLoadError"
      [] call = "PGVector" -> "StoreConnectionError"
      [] call = "add_documents" -> "StoreConnectionError"
      [] OTHER -> "QueryError"

\* One external call: it is appended to the trace of the running handler and
\* raises when it is the call the environment makes fail.
External(s, call, arg) ==
    LET t == Append(s.trace, <<call, arg>>)
    IN  IF Len(t) = s.fault
        THEN [s EXCEPT !.trace = t, !.exc = ErrorOf(call)]
        ELSE [s EXCEPT !.trace = t]

----------------------------------------------------------------------------
(* engine.py.  An operator that takes the record r left by a call continues *)
(* the function after that call: it passes r on unchanged when r raised.    *)

Raised(r) == r.exc # NoExc

\* Mutant of the query cache key: k is not part of the key.
QueryCacheKeyNoK(collection_name, query, k) ==
    collection_name \o ":" \o query

\* f"{self.collection_name}:{query}:{k}"
QueryCacheKey(collection_name, query, k) ==
    collection_name \o ":" \o query \o ":" \o ToString(k)

\* f"{collection_name}:{connection_url}"
ClientCacheKey(collection_name, connection_url) ==
    collection_name \o ":" \o connection_url

\* The instance a successful load returns: a new one on every call.
NewEmbeddings(r, name) ==
    IF Raised(r) THEN r
    ELSE [r EXCEPT !.handles = Append(r.handles, name),
                   !.ret = Len(r.handles) + 1]

\* HuggingFaceEmbeddings(model=name)
HuggingFaceEmbeddings(s, name) == NewEmbeddings(External(s, "load", name), name)

\* Mutant of the registration: a failed load is registered (as handle 0).
CacheEmbeddingsOfFailure(r, name) ==
    [r EXCEPT !.embedding_cache =
        (name :> IF Raised(r) THEN 0 ELSE r.ret) @@ r.embedding_cache]

\* _embedding_cache[name] = <the instance just loaded>
CacheEmbeddings(r, name) ==
    IF Raised(r) THEN r
    ELSE [r EXCEPT !.embedding_cache = (name :> r.ret) @@ r.embedding_cache]

\* Mutant of __init__: the store handle is made at construction.
NewClientConnected(r, connection_url, collection_name, embedding_model_name) ==
    IF Raised(r) THEN r
    ELSE [r EXCEPT !.clients = Append(r.clients,
                       [embeddings |-> r.embedding_cache[embedding_model_name],
                        collection_name |-> collection_name,
                        connection_url |-> connection_url,
                        vector_store |-> <<[collection_name |-> collection_name,
                                            connection |-> connection_url]>>]),
                   !.ret = Len(r.clients) + 1]

\* self.embeddings = ...; self.collection_name = ...; self._vector_store = None
NewClient(r, connection_url, collection_name, embedding_model_name) ==
    IF Raised(r) THEN r
    ELSE [r EXCEPT !.clients = Append(r.clients,
                       [embeddings |-> r.embedding_cache[embedding_model_name],
                        collection_name |-> collection_name,
                        connection_url |-> connection_url,
                        vector_store |-> None]),
                   !.ret = Len(r.clients) + 1]

\* Mutant of __init__: the model is loaded for every client, cached or not.
ClientInitReloading(s, connection_url, collection_name, embedding_model_name) ==
    NewClient(CacheEmbeddings(HuggingFaceEmbeddings(s, embedding_model_name),
                              embedding_model_name),
              connection_url, collection_name, embedding_model_name)

\* LangchainPgVectorClient.__init__
ClientInit(s, connection_url, collection_name, embedding_model_name) ==
    NewClient(IF embedding_model_name \notin DOMAIN s.embedding_cache
              THEN CacheEmbeddings(HuggingFaceEmbeddings(s, embedding_model_name),
                                   embedding_model_name)
              ELSE s,
              connection_url, collection_name, embedding_model_name)

\* PGVector(embeddings=..., collection_name=..., connection=...)
PGVector(client) ==
    [collection_name |-> client.collection_name,
     connection |-> client.connection_url]

\* Mutant of _ensure_vector_store: the handle is kept even when making it
\* failed.
SetVectorStoreKeepingBroken(r, self) ==
    [r EXCEPT !.clients[self].vector_store = <<PGVector(r.clients[self])>>,
              !.ret = PGVector(r.clients[self])]

\* self._vector_store = <the store handle just made>; return self._vector_store
SetVectorStore(r, self) ==
    IF Raised(r) THEN r
    ELSE [r EXCEPT !.clients[self].vector_store = <<PGVector(r.clients[self])>>,
                   !.ret = PGVector(r.clients[self])]

\* Mutant of _ensure_vector_store: a new store handle at every call.
EnsureVectorStoreAlways(s, self) ==
    SetVectorStore(External(s, "PGVector", s.clients[self].collection_name), self)

\* LangchainPgVectorClient._ensure_vector_store
EnsureVectorStore(s, self) ==
    IF s.clients[self].vector_store = None
    THEN SetVectorStore(External(s, "PGVector", s.clients[self].collection_name),
                        self)
    ELSE [s EXCEPT !.ret = s.clients[self].vector_store[1]]

\* LangchainPgVectorClient.get_vs
GetVs(s, self) == EnsureVectorStore(s, self)

\* What add_documents does to the collection of the store handle r.ret.
AddRows(r, docs) ==
    IF Raised(r) THEN r
    ELSE [r EXCEPT !.store[<<r.ret.connection, r.ret.collection_name>>] =
                       @ \o [i \in 1..Len(docs) |-> Document(docs[i])],
                   !.ret = None]

\* self.vector_store.add_documents(documents), r.ret being self.vector_store
AddDocuments(r, docs) ==
    IF Raised(r) THEN r
    ELSE AddRows(External(r, "add_documents", r.ret.collection_name), docs)

\* Mutant of insert_documents: the insert drops the cached query results.
InsertDocumentsInvalidating(s, self, docs) ==
    LET r == AddDocuments(EnsureVectorStore(s, self), docs)
    IN  IF Raised(r) THEN r ELSE [r EXCEPT !.query_cache = EmptyMap]

\* Mutant of insert_documents: the insert forgets the registered clients and
\* the prewarming.
InsertDocumentsUnregistering(s, self, docs) ==
    LET r == AddDocuments(EnsureVectorStore(s, self), docs)
    IN  IF Raised(r) THEN r
        ELSE [r EXCEPT !.client_cache = EmptyMap, !.prewarmed = FALSE]

\* LangchainPgVectorClient.insert_documents (ids=None: every row is new)
InsertDocuments(s, self, docs) ==
    AddDocuments(EnsureVectorStore(s, self), docs)

\* What similarity_search returns from the collection of the store handle r.ret.
Found(r, query, k) ==
    IF Raised(r) THEN r
    ELSE [r EXCEPT !.ret =
            SimilaritySearch(r.store[<<r.ret.connection, r.ret.collection_name>>],
                             query, k)]

\* self.vector_store.similarity_search(query, k=k), r.ret being self.vector_store
Search(r, query, k) ==
    IF Raised(r) THEN r
    ELSE Found(External(r, "similarity_search", query), query, k)

\* Mutant of query: a failed search is cached as an empty result.
CacheResultsOfFailure(r, cache_key) ==
    [r EXCEPT !.query_cache =
        (cache_key :> IF Raised(r) THEN <<>> ELSE r.ret) @@ r.query_cache]

\* _query_cache[cache_key] = results; return results
CacheResults(r, cache_key) ==
    IF Raised(r) THEN r
    ELSE [r EXCEPT !.query_cache = (cache_key :> r.ret) @@ r.query_cache]

\* Mutant of query: the result of a search is not put in the cache.
QueryNotCaching(s, self, query, k) ==
    IF QueryCacheKey(s.clients[self].collection_name, query, k)
          \in DOMAIN s.query_cache
    THEN [s EXCEPT !.ret =
            s.query_cache[QueryCacheKey(s.clients[self].collection_name, query, k)]]
    ELSE Search(EnsureVectorStore(s, self), query, k)

\* LangchainPgVectorClient.query
Query(s, self, query, k) ==
    IF QueryCacheKey(s.clients[self].collection_name, query, k)
          \in DOMAIN s.query_cache
    THEN [s EXCEPT !.ret =
            s.query_cache[QueryCacheKey(s.clients[self].collection_name, query, k)]]
    ELSE CacheResults(Search(EnsureVectorStore(s, self), query, k),
                      QueryCacheKey(s.clients[self].collection_name, query, k))

\* Mutant of query_batch: the results of a query go in front of the results
\* collected so far.
RECURSIVE QueryBatchFromReversed(_, _, _, _, _, _)
QueryBatchFromReversed(s, self, queries, k, i, all_results) ==
    IF i > Len(queries) THEN [s EXCEPT !.ret = all_results]
    ELSE LET r == Query(s, self, queries[i], k)
         IN  IF Raised(r) THEN r
             ELSE QueryBatchFromReversed(r, self, queries, k, i + 1,
                                         r.ret \o all_results)

\* LangchainPgVectorClient.query_batch: the loop over queries[i..], with
\* all_results returned at the end.
RECURSIVE QueryBatchFrom(_, _, _, _, _, _)
RECURSIVE Extend(_, _, _, _, _, _)

\* Mutant of query_batch: when a query fails, the batch takes the entries of
\* its earlier queries out of the cache.
ExtendRollingBack(r, self, queries, k, i, all_results) ==
    IF Raised(r)
    THEN [r EXCEPT !.query_cache =
            [key \in DOMAIN r.query_cache \
                     { QueryCacheKey(r.clients[self].collection_name, queries[n], k)
                         : n \in 1..(i - 1) } |-> r.query_cache[key]]]
    ELSE QueryBatchFrom(r, self, queries, k, i + 1, all_results \o r.ret)

QueryBatchFrom(s, self, queries, k, i, all_results) ==
    IF i > Len(queries) THEN [s EXCEPT !.ret = all_results]
    ELSE Extend(Query(s, self, queries[i], k), self, queries, k, i, all_results)

\* all_results.extend(results), r.ret being the results of queries[i]; then
\* the rest of the loop.
Extend(r, self, queries, k, i, all_results) ==
    IF Raised(r) THEN r
    ELSE QueryBatchFrom(r, self, queries, k, i + 1, all_results \o r.ret)

QueryBatch(s, self, queries, k) == QueryBatchFrom(s, self, queries, k, 1, <<>>)

\* _client_cache[cache_key] = <the client just built>
CacheClient(r, cache_key) ==
    IF Raised(r) THEN r
    ELSE [r EXCEPT !.client_cache = (cache_key :> r.ret) @@ r.client_cache]

\* return _client_cache[cache_key]
CachedClient(r, cache_key) ==
    IF Raised(r) THEN r ELSE [r EXCEPT !.ret = r.client_cache[cache_key]]

\* Mutant of get_vector_client: the client built is not put in the registry.
GetVectorClientNotStoring(s, collection_name, connection_url) ==
    IF ClientCacheKey(collection_name, connection_url) \notin DOMAIN s.client_cache
    THEN ClientInit(s, connection_url, collection_name, DefaultModel)
    ELSE CachedClient(s, ClientCacheKey(collection_name, connection_url))

\* get_vector_client
GetVectorClient(s, collection_name, connection_url) ==
    CachedClient(
        IF ClientCacheKey(collection_name, connection_url)
              \notin DOMAIN s.client_cache
        THEN CacheClient(
                 ClientInit(s, connection_url, collection_name, DefaultModel),
                 ClientCacheKey(collection_name, connection_url))
        ELSE s,
        ClientCacheKey(collection_name, connection_url))

\* _embedding_cache[model_name].embed_query("warmup query")
EmbedQuery(r, model_name) ==
    IF Raised(r) THEN r ELSE External(r, "embed_query", model_name)

\* prewarm_models: the loop over models[i..]
RECURSIVE PrewarmFrom(_, _, _)
PrewarmFrom(s, models, i) ==
    IF Raised(s) \/ i > Len(models) THEN s
    ELSE PrewarmFrom(
             IF models[i] \notin DOMAIN s.embedding_cache
             THEN EmbedQuery(
                      CacheEmbeddings(HuggingFaceEmbeddings(s, models[i]),
                                      models[i]),
                      models[i])
             ELSE s,
             models, i + 1)

\* get_vector_client("cv_documents", connection_url), after the loop
PrewarmClient(r, connection_url) ==
    IF Raised(r) THEN r
    ELSE GetVectorClient(r, DefaultCollection, connection_url)

\* Mutant of the end of prewarm_models: the flag is set whether or not the
\* steps before it raised (as in a finally clause).
SetPrewarmedAlways(r) == [r EXCEPT !.prewarmed = TRUE]

\* _prewarmed = True
SetPrewarmed(r) ==
    IF Raised(r) THEN r ELSE [r EXCEPT !.prewarmed = TRUE, !.ret = None]

\* Mutant of prewarm_models: no early return when already prewarmed.
PrewarmModelsAlways(s, models, connection_url) ==
    SetPrewarmed(
        PrewarmClient(
            PrewarmFrom(s, IF models = None THEN <<DefaultModel>> ELSE models[1], 1),
            IF connection_url = None THEN EnvUrl ELSE connection_url[1]))

\* prewarm_models; an argument is None or <<value>>
PrewarmModels(s, models, connection_url) ==
    IF s.prewarmed THEN [s EXCEPT !.ret = None]
    ELSE SetPrewarmed(
             PrewarmClient(
                 PrewarmFrom(s, IF models = None THEN <<DefaultModel>>
                                ELSE models[1], 1),
                 IF connection_url = None THEN EnvUrl ELSE connection_url[1]))

----------------------------------------------------------------------------
(* speed_test.py: the reset of the caches *)

\* Mutant of the reset: the query cache is not cleared.
ResetCachesButQueries(s) ==
    [s EXCEPT !.embedding_cache = EmptyMap,
              !.client_cache = EmptyMap,
              !.prewarmed = FALSE,
              !.mark = [handles |-> Len(s.handles), clients |-> Len(s.clients)]]

ResetCaches(s) ==
    [s EXCEPT !.embedding_cache = EmptyMap,
              !.client_cache = EmptyMap,
              !.query_cache = EmptyMap,
              !.prewarmed = FALSE,
              !.mark = [handles |-> Len(s.handles), clients |-> Len(s.clients)]]

----------------------------------------------------------------------------
(* document_processor.py, document_processing_flow.py *)

\* DocumentProcessor.__init__: HuggingFaceEmbeddings(model_name=model_name),
\* kept in self._embeddings; an exception is logged and raised again.
DocumentProcessorInit(s, model_name) == HuggingFaceEmbeddings(s, model_name)

\* vector_client.insert_documents(docs_for_insertion), r.ret being vector_client
InsertChunks(r, chunks) ==
    IF Raised(r) THEN r ELSE InsertDocuments(r, r.ret, chunks)

\* except Exception as e: raise DocumentEmbedError(...)
RaiseDocumentEmbedError(r) ==
    IF Raised(r) THEN [r EXCEPT !.exc = "DocumentEmbedError"] ELSE r

\* Mutant of insert_to_vector_store: the processor builds a client of its own
\* instead of asking the registry.
InsertToVectorStoreOwnClient(s, chunks) ==
    RaiseDocumentEmbedError(
        InsertChunks(ClientInit(s, EnvUrl, DefaultCollection, DefaultModel),
                     chunks))

\* DocumentProcessor.insert_to_vector_store: every exception leaves as
\* DocumentEmbedError.
InsertToVectorStore(s, chunks) ==
    RaiseDocumentEmbedError(
        InsertChunks(GetVectorClient(s, DefaultCollection, EnvUrl), chunks))

\* client.query_batch(queries, k=5), r.ret being client
QueryContext(r, queries) ==
    IF Raised(r) THEN r ELSE QueryBatch(r, r.ret, queries, DefaultK)

\* vdb.vdb_engine.get_vector_client, the function fetch_context imports.
\* The module vdb_engine is not among the sources; this is the registry get
\* of the specification (return the client registered for the collection and
\* connection target, build and register it on a miss), which is what
\* engine.get_vector_client does, on the same registries, as speed_test.py
\* assumes when it resets engine's caches around fetch_context.
VdbEngineGetVectorClient(s, collection_name) ==
    GetVectorClient(s, collection_name, EnvUrl)

\* fetch_context
FetchContext(s, queries) ==
    QueryContext(VdbEngineGetVectorClient(s, DefaultCollection), queries)

\* The worker thread's call has ended, r being what it left: its result or
\* its exception is set on the future (r.ret), and nothing is raised in the
\* worker's caller.
SetFuture(r) ==
    [r EXCEPT !.ret = [result |-> IF Raised(r) THEN None ELSE r.ret,
                       exception |-> r.exc],
              !.exc = NoExc]

\* asyncio.to_thread(fetch_context, queries), run by the worker thread: the
\* call works on the globals of the process.
ToThread(s, queries) == SetFuture(FetchContext(s, queries))

AwaitFutureSwallowing(r) ==
    [r EXCEPT !.ret = r.ret.result, !.exc = NoExc]

\* return await <future>, r.ret being the future: return its result or raise
\* its exception
AwaitFuture(r) ==
    [r EXCEPT !.ret = r.ret.result, !.exc = r.ret.exception]

\* fetch_context_async, when nothing else runs between its steps
FetchContextAsync(s, queries) == AwaitFuture(ToThread(s, queries))

----------------------------------------------------------------------------
(* db/CRUD/auth_CRUD.py, db/models.py.  A string is a sequence of characters; *)
(* a call works on a record db of the table users, the exception raised and  *)
(* the value returned.                                                       *)

Chars == {"a", "A", " "}
Emails == UNION { [1..n -> Chars] : n \in 0..MaxEmailLen }
Passwords == {"pw", "differentpassword"}

\* str.lower
Lower(str) == [i \in 1..Len(str) |-> IF str[i] = "A" THEN "a" ELSE str[i]]

\* str.strip: the leading and the trailing whitespace is dropped
RECURSIVE Strip(_)
Strip(str) ==
    IF str = <<>> THEN str
    ELSE IF Head(str) = " " THEN Strip(Tail(str))
    ELSE IF str[Len(str)] = " " THEN Strip(SubSeq(str, 1, Len(str) - 1))
    ELSE str

\* Mutant of the normalisation: the email is trimmed and not lowercased.
NormalizedEmailNotLowered(email) == Strip(email)

\* email.lower().strip()
NormalizedEmail(email) == Strip(Lower(email))

\* AuthCRUD.hash_password: pbkdf2_sha256.hash(password)
HashPassword(password) == <<"pbkdf2-sha256", password>>

\* User(email=email.lower().strip(), password_hash=hashed_password); the id
\* is the default of the column, a new one
NewUser(db, email, password) ==
    [id |-> Len(db.users) + 1, email |-> NormalizedEmail(email),
     password_hash |-> HashPassword(password)]

\* session.add(new_user); session.commit(); session.refresh(new_user);
\* return new_user.  The column email is unique: the insert of a row whose
\* email is that of a stored row fails with IntegrityError.
AddAndCommit(db, new_user) ==
    IF \E i \in 1..Len(db.users) : db.users[i].email = new_user.email
    THEN [db EXCEPT !.exc = "IntegrityError"]
    ELSE [db EXCEPT !.users = Append(db.users, new_user), !.ret = new_user]

\* except IntegrityError: session.rollback(); raise UserAlreadyExistsError
RaiseUserAlreadyExists(r) ==
    IF r.exc = "IntegrityError" THEN [r EXCEPT !.exc = "UserAlreadyExistsError"]
    ELSE r

\* AuthCRUD.create_user
CreateUser(db, email, password) ==
    RaiseUserAlreadyExists(AddAndCommit(db, NewUser(db, email, password)))

----------------------------------------------------------------------------
(* db/CRUD/resume_CRUD.py, db/models.py.  A call works on a record db of the *)
(* table resumes, the exception raised and the value returned.  A column     *)
(* value is None (NULL) or <<text>>.  A Resume object is its mapped columns  *)
(* (row) and the plain attributes set on the instance (attrs).               *)

ResumeIds == {"r1", "r2"}
Texts == {"x", "y"}

\* The columns of class Resume (models.py:41-47)
ResumeColumns == {"id", "user_id", "uploaded_at", "original_text", "embedding",
                  "summary", "filename"}

\* The attributes of class Resume: its columns and its relationships
ResumeAttributes == ResumeColumns \cup {"user", "sections", "feedback"}

\* The field parameters of create_resume and update_resume, in the order of
\* the statements of update_resume
UpdateFields == <<"filename", "original_text", "summary", "skills", "experience",
                  "projects", "education", "certificates">>

\* The field arguments of a call: v for the fields of S, None for the others
FieldArgs(S, v) ==
    [n \in 1..Len(UpdateFields) |-> IF UpdateFields[n] \in S THEN <<v>> ELSE None]

\* Resume(**kwargs), the constructor of the declarative base: a keyword that
\* is no attribute of the class is a TypeError; the defaults of the columns
\* fill the rest.
ResumeInit(db, user_id, names, values) ==
    IF \E n \in 1..Len(names) : names[n] \notin ResumeAttributes
    THEN [db EXCEPT !.exc = "TypeError"]
    ELSE [db EXCEPT !.ret =
            [row |-> [c \in ResumeColumns \ {"id"} |->
                        IF c = "user_id" THEN <<user_id>>
                        ELSE IF c = "uploaded_at" THEN <<"now">>
                        ELSE IF \E n \in 1..Len(names) : names[n] = c
                             THEN values[CHOOSE n \in 1..Len(names) : names[n] = c]
                             ELSE None],
             attrs |-> EmptyMap]]

\* session.add(resume); session.commit(); session.refresh(resume); return
\* resume, r.ret being resume and id the new primary key
AddResume(r, id) ==
    IF r.exc # NoExc THEN r
    ELSE [r EXCEPT !.resumes = (id :> r.ret.row) @@ r.resumes]

\* setup.py: Resume(user_id=..., original_text=..., filename=..., summary=...)
InsertResume(db, id, original_text, filename, summary) ==
    AddResume(ResumeInit(db, "u1", <<"original_text", "filename", "summary">>,
                         <<original_text, filename, summary>>), id)

\* create_resume: every field parameter is passed on as a keyword
CreateResume(db, id, args) ==
    AddResume(ResumeInit(db, "u1", UpdateFields, args), id)

\* resume.<name> = value: a mapped column is changed; any other name becomes
\* a plain attribute of the instance
SetAttr(obj, name, value) ==
    IF name \in ResumeColumns
    THEN [obj EXCEPT !.row[name] = value]
    ELSE [obj EXCEPT !.attrs = (name :> value) @@ obj.attrs]

\* update_resume: the statements `if <field> is not None: resume.<field> =
\* <field>` from statement n on
RECURSIVE SetFields(_, _, _)
SetFields(obj, args, n) ==
    IF n > Len(UpdateFields) THEN obj
    ELSE SetFields(IF args[n] # None THEN SetAttr(obj, UpdateFields[n], args[n])
                   ELSE obj,
                   args, n + 1)

\* session.commit(); session.refresh(resume); return resume: the mapped
\* columns are written to the row and read back; the plain attributes stay
\* on the instance
CommitResume(db, resume_id, obj) ==
    [db EXCEPT !.resumes[resume_id] = obj.row, !.ret = obj]

\* update_resume
UpdateResume(db, resume_id, args) ==
    IF resume_id \notin DOMAIN db.resumes
    THEN [db EXCEPT !.ret = None]
    ELSE CommitResume(db, resume_id,
             SetFields([row |-> db.resumes[resume_id], attrs |-> EmptyMap],
                       args, 1))

\* get_resume
GetResume(db, resume_id) ==
    IF resume_id \notin DOMAIN db.resumes THEN [db EXCEPT !.ret = None]
    ELSE [db EXCEPT !.ret = [row |-> db.resumes[resume_id], attrs |-> EmptyMap]]

\* delete_resume
DeleteResume(db, resume_id) ==
    IF resume_id \notin DOMAIN db.resumes THEN [db EXCEPT !.ret = FALSE]
    ELSE [db EXCEPT !.resumes = [i \in DOMAIN db.resumes \ {resume_id} |->
                                    db.resumes[i]],
                    !.ret = TRUE]

----------------------------------------------------------------------------
(* The process *)

\* The process record a handler starts from: the state, an empty trace, and
\* the external call the environment makes fail (0: none).
Proc(fault) ==
    [embedding_cache |-> embedding_cache, client_cache |-> client_cache,
     query_cache |-> query_cache, prewarmed |-> prewarmed,
     handles |-> handles, clients |-> clients, store |-> store, mark |-> mark,
     trace |-> <<>>, exc |-> NoExc, ret |-> None, fault |-> fault]

Rows(s) == LET S == DOMAIN s.store
               RECURSIVE Sum(_)
               Sum(T) == IF T = {} THEN 0
                         ELSE LET x == CHOOSE y \in T : TRUE
                              IN  Len(s.store[x]) + Sum(T \ {x})
           IN  Sum(S)

\* The model is bounded: a call that would exceed a bound is not taken.
Bounded(s) ==
    /\ Len(s.handles) <= MaxHandles
    /\ Len(s.clients) <= MaxClients
    /\ Rows(s) <= MaxDocs

\* The state after a call, and the record of the call.
CommitCaches(s, op) ==
    /\ Bounded(s)
    /\ embedding_cache' = s.embedding_cache
    /\ client_cache' = s.client_cache
    /\ query_cache' = s.query_cache
    /\ prewarmed' = s.prewarmed
    /\ handles' = s.handles
    /\ clients' = s.clients
    /\ store' = s.store
    /\ mark' = s.mark
    /\ last' = [op |-> op, exc |-> s.exc, warm |-> prewarmed,
                built |-> Len(s.clients) - Len(clients),
                calls |-> [i \in 1..Len(s.trace) |-> s.trace[i][1]]]
    /\ UNCHANGED <<users, resumes, threads, high>>

\* A call made outside fetch_context_async
Commit(s, op) == CommitCaches(s, op) /\ UNCHANGED future

\* The worker threads of asyncio.to_thread, and a thread that runs no call
Threads == {1, 2}
IdleThread == [pc |-> "idle", h |-> 0, client |-> 0, self |-> 0, vs |-> None,
               results |-> <<>>, cold |-> FALSE, floor |-> 0]

NoFuture == [state |-> "none", queries |-> <<>>, result |-> None,
             exception |-> NoExc]

Init ==
    /\ embedding_cache = EmptyMap
    /\ client_cache = EmptyMap
    /\ query_cache = EmptyMap
    /\ prewarmed = FALSE
    /\ handles = <<>>
    /\ clients = <<>>
    /\ store = [at \in Urls \X Collections |-> <<>>]
    /\ mark = [handles |-> 0, clients |-> 0]
    /\ last = [op |-> "start", exc |-> NoExc, warm |-> FALSE, built |-> 0,
               calls |-> <<>>]
    /\ future = NoFuture
    /\ users = <<>>
    /\ resumes = EmptyMap
    /\ threads = [t \in Threads |-> IdleThread]
    /\ high = 0

\* The external calls the environment can make fail in a call that makes the
\* calls of `trace` when none fails: one of them, or none (0).
Faults(trace) == 0..Len(trace)

DoGetVectorClient(PS) ==
    \E c \in Collections, u \in Urls :
      \E f \in Faults(GetVectorClient(Proc(0), c, u).trace) :
        /\ <<c, u>> \in PS
        /\ Commit(GetVectorClient(Proc(f), c, u), "get_vector_client")

DoInsertDocuments(DS) ==
    \E self \in 1..Len(clients), docs \in DS :
      \E f \in Faults(InsertDocuments(Proc(0), self, docs).trace) :
        Commit(InsertDocuments(Proc(f), self, docs), "insert_documents")

DoQuery(QS, KS) ==
    \E self \in 1..Len(clients), q \in QS, k \in KS :
      \E f \in Faults(Query(Proc(0), self, q, k).trace) :
        Commit(Query(Proc(f), self, q, k), "query")

DoGetVs ==
    \E self \in 1..Len(clients) :
      \E f \in Faults(GetVs(Proc(0), self).trace) :
        Commit(GetVs(Proc(f), self), "get_vs")

DoQueryBatch(QL, KS) ==
    \E self \in 1..Len(clients), qs \in QL, k \in KS :
      \E f \in Faults(QueryBatch(Proc(0), self, qs, k).trace) :
        Commit(QueryBatch(Proc(f), self, qs, k), "query_batch")

DoPrewarmModels(ML, US) ==
    \E models \in Optional(ML), u \in Optional(US) :
      \E f \in Faults(PrewarmModels(Proc(0), models, u).trace) :
        Commit(PrewarmModels(Proc(f), models, u), "prewarm_models")

DoResetCaches ==
    Commit(ResetCaches(Proc(0)), "reset")

DoDocumentProcessorInit(MS) ==
    \E m \in MS :
      \E f \in Faults(DocumentProcessorInit(Proc(0), m).trace) :
        Commit(DocumentProcessorInit(Proc(f), m), "DocumentProcessor")

DoInsertToVectorStore(DS) ==
    \E chunks \in DS :
      \E f \in Faults(InsertToVectorStore(Proc(0), chunks).trace) :
        Commit(InsertToVectorStore(Proc(f), chunks), "insert_to_vector_store")

DoFetchContext(QL) ==
    \E qs \in QL :
      \E f \in Faults(FetchContext(Proc(0), qs).trace) :
        Commit(FetchContext(Proc(f), qs), "fetch_context")

\* fetch_context_async up to its await: the call is handed to a worker
\* thread and the coroutine is suspended.
DoFetchContextAsync(QL) ==
    \E qs \in QL :
        /\ future.state \in {"none", "returned"}
        /\ future' = [state |-> "pending", queries |-> qs, result |-> None,
                      exception |-> NoExc]
        /\ UNCHANGED <<embedding_cache, client_cache, query_cache, prewarmed,
                       handles, clients, store, mark, last, users, resumes,
                       threads, high>>

\* The worker thread runs fetch_context(queries).
DoToThread ==
    \E f \in Faults(ToThread(Proc(0), future.queries).trace) :
        /\ future.state = "pending"
        /\ CommitCaches(ToThread(Proc(f), future.queries), "to_thread")
        /\ future' = [state |-> "done", queries |-> future.queries,
                      result |-> ToThread(Proc(f), future.queries).ret.result,
                      exception |-> ToThread(Proc(f), future.queries).ret.exception]

\* The coroutine is resumed: fetch_context_async returns or raises.
DoAwaitFuture ==
    /\ future.state = "done"
    /\ CommitCaches(
           AwaitFuture([Proc(0) EXCEPT !.ret = [result |-> future.result,
                                                exception |-> future.exception]]),
           "fetch_context_async")
    /\ future' = [future EXCEPT !.state = "returned"]

\* The table users as a call of auth_CRUD finds it
Db == [users |-> users, exc |-> NoExc, ret |-> None]

DoCreateUser(ES, PS) ==
    \E email \in ES, password \in PS :
        /\ Len(CreateUser(Db, email, password).users) <= MaxUsers
        /\ users' = CreateUser(Db, email, password).users
        /\ last' = [op |-> "create_user",
                    exc |-> CreateUser(Db, email, password).exc,
                    warm |-> prewarmed, built |-> 0, calls |-> <<"commit">>]
        /\ UNCHANGED <<embedding_cache, client_cache, query_cache, prewarmed,
                       handles, clients, store, mark, future, resumes,
                       threads, high>>

\* The table resumes as a call of resume_CRUD finds it
ResumeDb == [resumes |-> resumes, exc |-> NoExc, ret |-> None]

\* The state after a call of resume_CRUD, and the record of the call.
CommitResumes(r, op) ==
    /\ resumes' = r.resumes
    /\ last' = [op |-> op, exc |-> r.exc, warm |-> prewarmed, built |-> 0,
                calls |-> <<"commit">>]
    /\ UNCHANGED <<embedding_cache, client_cache, query_cache, prewarmed,
                   handles, clients, store, mark, future, users, threads, high>>

DoInsertResume ==
    \E id \in ResumeIds \ DOMAIN resumes :
      \E original_text \in Optional(Texts), filename \in Optional(Texts),
         summary \in Optional(Texts) :
        CommitResumes(InsertResume(ResumeDb, id, original_text, filename, summary),
                      "insert_resume")

DoCreateResume ==
    \E id \in ResumeIds \ DOMAIN resumes :
      \E S \in SUBSET {"filename", "summary", "skills"}, v \in Texts :
        CommitResumes(CreateResume(ResumeDb, id, FieldArgs(S, v)), "create_resume")

DoUpdateResume ==
    \E id \in ResumeIds :
      \E S \in SUBSET {"filename", "summary", "skills"}, v \in Texts :
        CommitResumes(UpdateResume(ResumeDb, id, FieldArgs(S, v)), "update_resume")

DoDeleteResume ==
    \E id \in ResumeIds :
        CommitResumes(DeleteResume(ResumeDb, id), "delete_resume")

----------------------------------------------------------------------------
(* fetch_context(["Go"]) run by a worker thread, one statement at a time.    *)
(* Between two statements another thread may run: a step is one read or one  *)
(* write of a shared dictionary or attribute, or one external call.          *)

ThreadQuery == "Go"
ThreadVars == <<prewarmed, mark, last, future, users, resumes>>

\* Thread t goes on to statement pc
Goto(t, pc) == threads' = [threads EXCEPT ![t].pc = pc]

\* fetch_context is called: client = get_vector_client('cv_documents')
ThreadCall(t) ==
    /\ threads[t].pc = "idle"
    /\ threads' = [threads EXCEPT ![t] =
                      [IdleThread EXCEPT !.pc = "client_check",
                                         !.cold = (query_cache = EmptyMap),
                                         !.floor = high]]
    /\ UNCHANGED <<embedding_cache, client_cache, query_cache, handles, clients,
                   store, high>>
    /\ UNCHANGED ThreadVars

\* get_vector_client: if cache_key not in _client_cache
ThreadClientCheck(t) ==
    /\ threads[t].pc = "client_check"
    /\ Goto(t, IF ClientCacheKey(DefaultCollection, EnvUrl) \in DOMAIN client_cache
                THEN "client_return" ELSE "model_check")
    /\ UNCHANGED <<embedding_cache, client_cache, query_cache, handles, clients,
                   store, high>>
    /\ UNCHANGED ThreadVars

\* __init__: if embedding_model_name not in _embedding_cache
ThreadModelCheck(t) ==
    /\ threads[t].pc = "model_check"
    /\ Goto(t, IF DefaultModel \in DOMAIN embedding_cache
                THEN "client_init" ELSE "model_load")
    /\ UNCHANGED <<embedding_cache, client_cache, query_cache, handles, clients,
                   store, high>>
    /\ UNCHANGED ThreadVars

\* __init__: HuggingFaceEmbeddings(model=embedding_model_name)
ThreadModelLoad(t) ==
    /\ threads[t].pc = "model_load"
    /\ Len(handles) < MaxHandles
    /\ handles' = Append(handles, DefaultModel)
    /\ threads' = [threads EXCEPT ![t].pc = "model_store",
                                  ![t].h = Len(handles) + 1]
    /\ UNCHANGED <<embedding_cache, client_cache, query_cache, clients, store,
                   high>>
    /\ UNCHANGED ThreadVars

\* __init__: _embedding_cache[embedding_model_name] = <the instance loaded>
ThreadModelStore(t) ==
    /\ threads[t].pc = "model_store"
    /\ embedding_cache' = (DefaultModel :> threads[t].h) @@ embedding_cache
    /\ Goto(t, "client_init")
    /\ UNCHANGED <<client_cache, query_cache, handles, clients, store, high>>
    /\ UNCHANGED ThreadVars

\* __init__: self.embeddings = _embedding_cache[embedding_model_name] and the
\* other attributes of the new client
ThreadClientInit(t) ==
    /\ threads[t].pc = "client_init"
    /\ Len(clients) < MaxClients
    /\ clients' = Append(clients,
                     [embeddings |-> embedding_cache[DefaultModel],
                      collection_name |-> DefaultCollection,
                      connection_url |-> EnvUrl,
                      vector_store |-> None])
    /\ threads' = [threads EXCEPT ![t].pc = "client_store",
                                  ![t].client = Len(clients) + 1]
    /\ UNCHANGED <<embedding_cache, client_cache, query_cache, handles, store,
                   high>>
    /\ UNCHANGED ThreadVars

\* A registry that keeps its first entry: setdefault instead of assignment
ThreadClientStoreFirstWins(t) ==
    /\ threads[t].pc = "client_store"
    /\ client_cache' = client_cache
                       @@ (ClientCacheKey(DefaultCollection, EnvUrl) :> threads[t].client)
    /\ Goto(t, "client_return")
    /\ UNCHANGED <<embedding_cache, query_cache, handles, clients, store, high>>
    /\ UNCHANGED ThreadVars

\* get_vector_client: _client_cache[cache_key] = <the client built>
ThreadClientStore(t) ==
    /\ threads[t].pc = "client_store"
    /\ client_cache' = (ClientCacheKey(DefaultCollection, EnvUrl) :> threads[t].client)
                           @@ client_cache
    /\ Goto(t, "client_return")
    /\ UNCHANGED <<embedding_cache, query_cache, handles, clients, store, high>>
    /\ UNCHANGED ThreadVars

\* get_vector_client: return _client_cache[cache_key]
ThreadClientReturn(t) ==
    /\ threads[t].pc = "client_return"
    /\ threads' = [threads EXCEPT ![t].pc = "query_check",
                                  ![t].self =
                        client_cache[ClientCacheKey(DefaultCollection, EnvUrl)]]
    /\ UNCHANGED <<embedding_cache, client_cache, query_cache, handles, clients,
                   store, high>>
    /\ UNCHANGED ThreadVars

\* query: if cache_key in _query_cache
ThreadQueryCheck(t) ==
    /\ threads[t].pc = "query_check"
    /\ Goto(t, IF QueryCacheKey(DefaultCollection, ThreadQuery, DefaultK)
                     \in DOMAIN query_cache
                THEN "query_hit"
                ELSE IF clients[threads[t].self].vector_store = None
                     THEN "connect" ELSE "search")
    /\ UNCHANGED <<embedding_cache, client_cache, query_cache, handles, clients,
                   store, high>>
    /\ UNCHANGED ThreadVars

\* query: return _query_cache[cache_key]
ThreadQueryHit(t) ==
    /\ threads[t].pc = "query_hit"
    /\ threads' = [threads EXCEPT ![t].pc = "return",
                                  ![t].results =
                        query_cache[QueryCacheKey(DefaultCollection, ThreadQuery,
                                                  DefaultK)]]
    /\ UNCHANGED <<embedding_cache, client_cache, query_cache, handles, clients,
                   store, high>>
    /\ UNCHANGED ThreadVars

\* _ensure_vector_store: PGVector(...)
ThreadConnect(t) ==
    /\ threads[t].pc = "connect"
    /\ threads' = [threads EXCEPT ![t].pc = "set_vector_store",
                                  ![t].vs = <<PGVector(clients[threads[t].self])>>]
    /\ UNCHANGED <<embedding_cache, client_cache, query_cache, handles, clients,
                   store, high>>
    /\ UNCHANGED ThreadVars

\* _ensure_vector_store: self._vector_store = <the handle made>
ThreadSetVectorStore(t) ==
    /\ threads[t].pc = "set_vector_store"
    /\ clients' = [clients EXCEPT ![threads[t].self].vector_store = threads[t].vs]
    /\ Goto(t, "search")
    /\ UNCHANGED <<embedding_cache, client_cache, query_cache, handles, store,
                   high>>
    /\ UNCHANGED ThreadVars

\* query: results = self._vector_store.similarity_search(query=query, k=k)
ThreadSearch(t) ==
    /\ threads[t].pc = "search"
    /\ threads' = [threads EXCEPT ![t].pc = "cache",
                                  ![t].results =
            SimilaritySearch(
                store[<<clients[threads[t].self].vector_store[1].connection,
                        clients[threads[t].self].vector_store[1].collection_name>>],
                ThreadQuery, DefaultK)]
    /\ UNCHANGED <<embedding_cache, client_cache, query_cache, handles, clients,
                   store, high>>
    /\ UNCHANGED ThreadVars

\* query: _query_cache[cache_key] = results
ThreadCache(t) ==
    /\ threads[t].pc = "cache"
    /\ query_cache' = (QueryCacheKey(DefaultCollection, ThreadQuery, DefaultK)
                           :> threads[t].results) @@ query_cache
    /\ Goto(t, "return")
    /\ UNCHANGED <<embedding_cache, client_cache, handles, clients, store, high>>
    /\ UNCHANGED ThreadVars

\* query_batch returns the results of its one query, and fetch_context
\* returns them to its caller
ThreadReturn(t) ==
    /\ threads[t].pc = "return"
    /\ Goto(t, "done")
    /\ high' = IF Len(threads[t].results) > high THEN Len(threads[t].results)
               ELSE high
    /\ UNCHANGED <<embedding_cache, client_cache, query_cache, handles, clients,
                   store>>
    /\ UNCHANGED ThreadVars

\* The caller has the results; the thread is free for the next call
ThreadFree(t) ==
    /\ threads[t].pc = "done"
    /\ Goto(t, "idle")
    /\ UNCHANGED <<embedding_cache, client_cache, query_cache, handles, clients,
                   store, high>>
    /\ UNCHANGED ThreadVars

\* One step of one worker thread
ThreadStep ==
    \E t \in Threads :
        \/ ThreadCall(t)
        \/ ThreadClientCheck(t)
        \/ ThreadModelCheck(t)
        \/ ThreadModelLoad(t)
        \/ ThreadModelStore(t)
        \/ ThreadClientInit(t)
        \/ ThreadClientStore(t)
        \/ ThreadClientReturn(t)
        \/ ThreadQueryCheck(t)
        \/ ThreadQueryHit(t)
        \/ ThreadConnect(t)
        \/ ThreadSetVectorStore(t)
        \/ ThreadSearch(t)
        \/ ThreadCache(t)
        \/ ThreadReturn(t)
        \/ ThreadFree(t)

AllIdle == \A t \in Threads : threads[t].pc = "idle"

\* The query path: one client key, inserts, queries of one text with two k,
\* and the reset.
Next ==
    \/ DoGetVectorClient({<<DefaultCollection, EnvUrl>>})
    \/ DoInsertDocuments(DocLists)
    \/ DoQuery({"Go"}, Ks)
    \/ DoResetCaches

Spec == Init /\ [][Next]_vars

\* The batch path: one client key, inserts, batches of two texts, and the
\* reset.
NextBatch ==
    \/ DoGetVectorClient({<<DefaultCollection, EnvUrl>>})
    \/ DoInsertDocuments(DocLists)
    \/ DoQueryBatch(BatchLists, {1})
    \/ DoResetCaches

SpecBatch == Init /\ [][NextBatch]_vars

\* The registries: client lookups for every collection and connection,
\* prewarming, document processors, ingestion, fetches, and the reset.
\* (document_processing_flow is DocumentProcessor, insert_to_vector_store and
\* the fetch_context calls of the section extractor, one after the other.)
NextRegistry ==
    \/ DoGetVectorClient(Pairs)
    \/ DoPrewarmModels(ModelLists, {OtherUrl})
    \/ DoDocumentProcessorInit(Models)
    \/ DoInsertToVectorStore({<<[content |-> "Go developer"]>>})
    \/ DoFetchContext({<<>>, <<"Go">>})
    \/ DoResetCaches

SpecRegistry == Init /\ [][NextRegistry]_vars

\* Retrieval from a coroutine: fetch_context_async in its three steps, with
\* ingestion, the synchronous fetch and the reset running in between.
NextAsync ==
    \/ DoFetchContextAsync({<<>>, <<"Go">>, <<"eu:Go", "Go">>})
    \/ DoToThread
    \/ DoAwaitFuture
    \/ DoInsertToVectorStore({<<[content |-> "Go developer"]>>})
    \/ DoFetchContext({<<"Go">>})
    \/ DoResetCaches

SpecAsync == Init /\ [][NextAsync]_vars

\* Registration: create_user calls with every email and password.
NextAuth == DoCreateUser(Emails, Passwords)

SpecAuth == Init /\ [][NextAuth]_vars

\* The resumes: rows stored as setup.py stores them, create_resume,
\* update_resume and delete_resume.
NextResume ==
    \/ DoInsertResume
    \/ DoCreateResume
    \/ DoUpdateResume
    \/ DoDeleteResume

SpecResume == Init /\ [][NextResume]_vars

\* One collection name on two connection targets: clients, ingestion, queries
NextTargets ==
    \/ DoGetVectorClient({<<DefaultCollection, EnvUrl>>,
                          <<DefaultCollection, OtherUrl>>})
    \/ DoInsertDocuments(DocLists)
    \/ DoQuery({"Go"}, {1})

SpecTargets == Init /\ [][NextTargets]_vars

\* The keys of both caches: clients of every pair, queries of every text and k
NextKeys ==
    \/ DoGetVectorClient(Pairs)
    \/ DoQuery(Queries, Ks)

SpecKeys == Init /\ [][NextKeys]_vars

\* The store handle of a client under every call that uses it
NextHandle ==
    \/ DoGetVectorClient({<<DefaultCollection, EnvUrl>>})
    \/ DoInsertDocuments(DocLists)
    \/ DoQuery({"Go"}, {1})
    \/ DoQueryBatch({<<"Go", "eu:Go">>}, {1})
    \/ DoGetVs
    \/ DoResetCaches

SpecHandle == Init /\ [][NextHandle]_vars

\* Batches that fail partway, with a query text that comes back later
NextBatchFail ==
    \/ DoGetVectorClient({<<DefaultCollection, EnvUrl>>})
    \/ DoInsertDocuments({<<[content |-> "Go developer"]>>})
    \/ DoQueryBatch(RepeatLists, {1})
    \/ DoResetCaches

SpecBatchFail == Init /\ [][NextBatchFail]_vars

\* Concurrent first lookups: two worker threads run fetch_context; rows are
\* ingested and the caches are reset while no call is running.
NextLookup ==
    \/ ThreadStep
    \/ AllIdle /\ DoInsertToVectorStore({<<[content |-> "Go developer"]>>})
    \/ AllIdle /\ DoResetCaches

\* A process that starts on a database which may hold a row of an earlier run
InitLookup ==
    /\ embedding_cache = EmptyMap
    /\ client_cache = EmptyMap
    /\ query_cache = EmptyMap
    /\ prewarmed = FALSE
    /\ handles = <<>>
    /\ clients = <<>>
    /\ \E rows \in {<<>>, <<Document([content |-> "Go developer"])>>} :
          store = [at \in Urls \X Collections |->
                      IF at = <<EnvUrl, DefaultCollection>> THEN rows ELSE <<>>]
    /\ mark = [handles |-> 0, clients |-> 0]
    /\ last = [op |-> "start", exc |-> NoExc, warm |-> FALSE, built |-> 0,
               calls |-> <<>>]
    /\ future = NoFuture
    /\ users = <<>>
    /\ resumes = EmptyMap
    /\ threads = [t \in Threads |-> IdleThread]
    /\ high = 0

SpecLookup == InitLookup /\ [][NextLookup]_vars

\* Concurrent reads and an ingestion: two worker threads run fetch_context
\* while rows are ingested at any moment.
NextReads ==
    \/ ThreadStep
    \/ DoInsertToVectorStore({<<[content |-> "Go developer"]>>})

SpecReads == Init /\ [][NextReads]_vars

----------------------------------------------------------------------------
(* Claims.  A call "from here" is the handler applied to the current state;  *)
(* a second call starts from the state the first one left.                   *)

Here == Proc(0)
After(r) == [r EXCEPT !.trace = <<>>, !.exc = NoExc, !.ret = None, !.fault = 0]
Count(trace, call) == Cardinality({i \in 1..Len(trace) : trace[i][1] = call})
Self == 1..Len(clients)
AllKs == Ks \cup {DefaultK}
Caches(s) == <<s.embedding_cache, s.client_cache, s.query_cache, s.prewarmed>>
Fresh(self, q, k) ==
    SimilaritySearch(store[<<clients[self].connection_url,
                             clients[self].collection_name>>], q, k)

\* C1: for a fixed (collection, query text, k), a query that returned and the
\* same query repeated right after it on the same client return the identical
\* result sequence, and the second call makes no similarity search (no call
\* to the store at all).
C1_RepeatedQueryIsCached ==
    \A self \in Self, q \in Queries, k \in AllKs :
        LET first == Query(Here, self, q, k)
            second == Query(After(first), self, q, k)
        IN  first.exc = NoExc =>
              /\ second.exc = NoExc
              /\ second.ret = first.ret
              /\ Count(second.trace, "similarity_search") = 0
              /\ second.trace = <<>>

\* A query has just been answered from the cache with a non-empty result.
C1_Witness ==
    /\ last.op = "query" /\ last.exc = NoExc /\ last.calls = <<>>
    /\ \E self \in Self, k \in Ks :
          /\ QueryCacheKey(clients[self].collection_name, "Go", k) \in DOMAIN query_cache
          /\ \A c \in DOMAIN query_cache : query_cache[c] # <<>>

\* C2: staleness.  An entry of the query cache stays, with the value it was
\* cached with, across every call but the reset of the caches, inserts
\* included; and after every such call a query with the entry's (collection,
\* query text, k) returns that value without searching the store.
C2_CachedResultIsKept ==
    /\ [][ last'.op # "reset" =>
             \A key \in DOMAIN query_cache :
                 /\ key \in DOMAIN query_cache'
                 /\ query_cache'[key] = query_cache[key] ]_vars
    /\ [](\A self \in Self, q \in Queries, k \in AllKs :
             LET key == QueryCacheKey(clients[self].collection_name, q, k)
                 r == Query(Here, self, q, k)
             IN  key \in DOMAIN query_cache =>
                   /\ r.exc = NoExc
                   /\ r.ret = query_cache[key]
                   /\ r.trace = <<>>)

\* A query has just been answered from the cache while every cached result
\* for "Go" differs from what the store would now return: the rows inserted
\* since rank in the top k.
C2_Witness ==
    /\ last.op = "query" /\ last.exc = NoExc /\ last.calls = <<>>
    /\ \E self \in Self :
          /\ \E k \in Ks :
                QueryCacheKey(clients[self].collection_name, "Go", k) \in DOMAIN query_cache
          /\ \A k \in Ks :
                LET key == QueryCacheKey(clients[self].collection_name, "Go", k)
                IN  key \in DOMAIN query_cache =>
                      /\ query_cache[key] # Fresh(self, "Go", k)
                      /\ Len(query_cache[key]) < Len(Fresh(self, "Go", k))

\* C3: insert_documents, whether it returns or raises, leaves the query
\* cache, the client registry, the embedding-model registry, the prewarm flag
\* and the loaded models as they are; of the clients it changes at most the
\* store handle of its own client, and only when that handle was not yet
\* created; of the collections it changes only its own, by appending the
\* documents.
C3_InsertChangesOnlyTheCollection ==
    \A self \in Self, docs \in DocLists, f \in 0..2 :
        LET r == InsertDocuments(Proc(f), self, docs)
            at == <<clients[self].connection_url, clients[self].collection_name>>
        IN  /\ Caches(r) = Caches(Here)
            /\ r.handles = handles
            /\ Len(r.clients) = Len(clients)
            /\ \A c \in Self : c # self => r.clients[c] = clients[c]
            /\ [r.clients[self] EXCEPT !.vector_store = None]
                 = [clients[self] EXCEPT !.vector_store = None]
            /\ clients[self].vector_store # None => r.clients = clients
            /\ \A x \in DOMAIN store : x # at => r.store[x] = store[x]
            /\ r.store[at] = IF r.exc = NoExc
                             THEN store[at] \o [i \in 1..Len(docs) |-> Document(docs[i])]
                             ELSE store[at]

\* Documents have just been inserted in a prewarmed process whose three
\* caches hold entries.
C3_Witness ==
    /\ last.op = "insert_to_vector_store" /\ last.exc = NoExc
    /\ last.calls = <<"add_documents">>
    /\ last.warm /\ prewarmed
    /\ query_cache # EmptyMap /\ client_cache # EmptyMap
    /\ embedding_cache # EmptyMap

\* C4: results are cached per k.  When query(q, k1) has returned and no result
\* is cached for (q, k2), k2 # k1, then query(q, k2) on the same client is a
\* miss: it makes one similarity search of its own, returns what that search
\* gives for k2, and adds a second entry while the entry of k1 stays as it is.
C4_CachedPerK ==
    \A self \in Self, q \in Queries, k1 \in AllKs, k2 \in AllKs :
        LET key1 == QueryCacheKey(clients[self].collection_name, q, k1)
            key2 == QueryCacheKey(clients[self].collection_name, q, k2)
            first == Query(Here, self, q, k1)
            second == Query(After(first), self, q, k2)
        IN  (k1 # k2 /\ first.exc = NoExc
               /\ QueryCacheKey(clients[self].collection_name, q, k2)
                     \notin DOMAIN query_cache) =>
              /\ second.exc = NoExc
              /\ Count(second.trace, "similarity_search") = 1
              /\ second.ret = Fresh(self, q, k2)
              /\ key1 # key2
              /\ {key1, key2} \subseteq DOMAIN second.query_cache
              /\ second.query_cache[key1] = first.query_cache[key1]
              /\ second.query_cache[key1] = first.ret
              /\ second.query_cache[key2] = second.ret
              /\ DOMAIN second.query_cache = DOMAIN first.query_cache \cup {key2}

\* A query has just missed the cache and searched the store, and the cache
\* now holds two different results for "Go", one for k = 1 and one for k = 2.
C4_Witness ==
    /\ last.op = "query" /\ last.exc = NoExc
    /\ last.calls = <<"similarity_search">>
    /\ \E self \in Self :
          LET key1 == QueryCacheKey(clients[self].collection_name, "Go", 1)
              key2 == QueryCacheKey(clients[self].collection_name, "Go", 2)
          IN  /\ {key1, key2} \subseteq DOMAIN query_cache
              /\ query_cache[key1] # query_cache[key2]
              /\ query_cache[key1] # <<>>

Flatten(seqs) ==
    LET RECURSIVE Upto(_)
        Upto(n) == IF n = 0 THEN <<>> ELSE Upto(n - 1) \o seqs[n]
    IN  Upto(Len(seqs))

\* C5: query_batch(qs, k) that returns, returns the results of query(q, k) for
\* the q of qs one after the other in the order of qs, an occurrence of a
\* query contributing its results each time it occurs; this is so for query
\* called before the batch and for query called after it; and the batch
\* searches the store at most once for each query text.
C5_BatchIsConcatenation ==
    \A self \in Self, qs \in QueryLists, k \in AllKs :
        LET batch == QueryBatch(Here, self, qs, k)
            before(q) == Query(Here, self, q, k)
            after(q) == Query(After(batch), self, q, k)
        IN  batch.exc = NoExc =>
              /\ \A i \in 1..Len(qs) : before(qs[i]).exc = NoExc
              /\ batch.ret = Flatten([i \in 1..Len(qs) |-> before(qs[i]).ret])
              /\ batch.ret = Flatten([i \in 1..Len(qs) |-> after(qs[i]).ret])
              /\ \A q \in Queries :
                    Cardinality({i \in 1..Len(batch.trace) :
                                   batch.trace[i] = <<"similarity_search", q>>}) <= 1
              /\ Count(batch.trace, "similarity_search")
                   = Cardinality({qs[i] : i \in 1..Len(qs)}
                       \ {q \in Queries :
                            QueryCacheKey(clients[self].collection_name, q, k)
                               \in DOMAIN query_cache})

\* A batch of two different queries has just searched the store for each,
\* and the two cached results, both non-empty, differ.
C5_Witness ==
    /\ last.op = "query_batch" /\ last.exc = NoExc
    /\ Count([i \in 1..Len(last.calls) |-> <<last.calls[i]>>], "similarity_search") = 2
    /\ \E self \in Self :
          LET a == QueryCacheKey(clients[self].collection_name, "Go", 1)
              b == QueryCacheKey(clients[self].collection_name, "eu:Go", 1)
          IN  /\ {a, b} \subseteq DOMAIN query_cache
              /\ query_cache[a] # <<>> /\ query_cache[b] # <<>>
              /\ query_cache[a] # query_cache[b]

RegistryOps == {"get_vector_client", "prewarm_models",
                "insert_to_vector_store", "fetch_context"}
Loads(trace, m) ==
    Cardinality({i \in 1..Len(trace) : trace[i] = <<"load", m>>})

\* C6: requests for a model name through the registry (client constructions
\* and prewarming) that return, with no reset between them, all yield one
\* handle, and the model is loaded once.  A registered handle stays registered
\* until the reset; a returning call of the engine loads one model for each
\* name it registers and none else; every client built since the last reset
\* holds the registered handle of its model; and from every state, a request
\* for a registered name loads nothing and yields the registered handle, while
\* a request for an unregistered name loads it once and every request after
\* it yields that same handle without a load.
C6_OneHandlePerModel ==
    /\ [][ last'.op # "reset" =>
             /\ \A m \in DOMAIN embedding_cache :
                   /\ m \in DOMAIN embedding_cache'
                   /\ embedding_cache'[m] = embedding_cache[m]
             /\ (last'.op \in RegistryOps /\ last'.exc = NoExc) =>
                   /\ Len(handles') - Len(handles)
                        = Cardinality(DOMAIN embedding_cache' \ DOMAIN embedding_cache)
                   /\ Count([i \in 1..Len(last'.calls) |-> <<last'.calls[i]>>], "load")
                        = Len(handles') - Len(handles) ]_vars
    /\ [](/\ \A m \in DOMAIN embedding_cache :
                /\ embedding_cache[m] \in 1..Len(handles)
                /\ embedding_cache[m] > mark.handles
                /\ handles[embedding_cache[m]] = m
          /\ \A c \in Self :
                c > mark.clients =>
                  /\ DefaultModel \in DOMAIN embedding_cache
                  /\ clients[c].embeddings = embedding_cache[DefaultModel]
          /\ \A m \in Models, c \in Collections, u \in Urls :
                LET first == ClientInit(Here, u, c, m)
                    warm == PrewarmFrom(Here, <<m>>, 1)
                    second == ClientInit(After(first), u, c, m)
                    third == PrewarmFrom(After(second), <<m, m>>, 1)
                    fourth == ClientInit(After(warm), u, c, m)
                IN  /\ first.exc = NoExc /\ warm.exc = NoExc
                    /\ second.exc = NoExc /\ third.exc = NoExc
                    /\ fourth.exc = NoExc
                    /\ Loads(first.trace, m)
                         = IF m \in DOMAIN embedding_cache THEN 0 ELSE 1
                    /\ Loads(warm.trace, m) = Loads(first.trace, m)
                    /\ m \in DOMAIN embedding_cache =>
                          /\ first.embedding_cache = embedding_cache
                          /\ warm = Here
                    /\ first.embedding_cache[m] = warm.embedding_cache[m]
                    /\ first.clients[first.ret].embeddings = first.embedding_cache[m]
                    /\ second.trace = <<>> /\ third.trace = <<>>
                    /\ fourth.trace = <<>>
                    /\ second.embedding_cache = first.embedding_cache
                    /\ third.embedding_cache = first.embedding_cache
                    /\ fourth.embedding_cache = warm.embedding_cache
                    /\ second.handles = first.handles
                    /\ third.handles = first.handles
                    /\ fourth.handles = warm.handles
                    /\ second.clients[second.ret].embeddings = first.embedding_cache[m]
                    /\ fourth.clients[fourth.ret].embeddings = warm.embedding_cache[m])

\* A prewarming and two client constructions since the start have returned,
\* the last client built without a load, and the one model loaded is held by
\* both clients.
C6_Witness ==
    /\ last.op = "get_vector_client" /\ last.exc = NoExc /\ last.calls = <<>>
    /\ last.built = 1
    /\ prewarmed /\ mark.clients = 0
    /\ Cardinality(DOMAIN client_cache) = 2 /\ Len(clients) = 2
    /\ handles = <<DefaultModel>>
    /\ clients[1].embeddings = 1 /\ clients[2].embeddings = 1

\* C7: with no reset, each model name has been loaded at most once, whatever
\* the calls made (client lookups, prewarming, document processors,
\* ingestion, fetches).
C7_EachModelLoadedAtMostOnce ==
    \A m \in Models :
        Cardinality({h \in 1..Len(handles) :
                       h > mark.handles /\ handles[h] = m}) <= 1

\* C8: the client registry holds one client per key.  A registered client
\* stays registered until the reset; the clients built since the last reset
\* and the registered keys correspond one to one, each client registered
\* under the key of its own collection name and connection; and from every
\* state, a lookup that returns builds a client only when its key is not
\* registered, and the same lookup repeated returns the identical client and
\* builds nothing.
C8_OneClientPerKey ==
    /\ [][ last'.op # "reset" =>
             \A key \in DOMAIN client_cache :
                 /\ key \in DOMAIN client_cache'
                 /\ client_cache'[key] = client_cache[key] ]_vars
    /\ [](/\ \A key \in DOMAIN client_cache :
                /\ client_cache[key] \in Self
                /\ client_cache[key] > mark.clients
          /\ \A c \in Self :
                c > mark.clients =>
                  LET key == ClientCacheKey(clients[c].collection_name,
                                            clients[c].connection_url)
                  IN  key \in DOMAIN client_cache /\ client_cache[key] = c
          /\ Cardinality(DOMAIN client_cache) = Len(clients) - mark.clients
          /\ \A c \in Collections, u \in Urls :
                LET key == ClientCacheKey(c, u)
                    first == GetVectorClient(Here, c, u)
                    second == GetVectorClient(After(first), c, u)
                IN  /\ first.exc = NoExc /\ second.exc = NoExc
                    /\ Len(first.clients) - Len(clients)
                         = IF key \in DOMAIN client_cache THEN 0 ELSE 1
                    /\ key \in DOMAIN client_cache =>
                          first.ret = client_cache[key]
                    /\ second.ret = first.ret
                    /\ second.trace = <<>>
                    /\ second.clients = first.clients
                    /\ second.client_cache = first.client_cache)

\* A lookup has just returned a registered client without building one, two
\* keys being registered.
C8_Witness ==
    /\ last.op = "get_vector_client" /\ last.exc = NoExc /\ last.built = 0
    /\ Cardinality(DOMAIN client_cache) = 2
    /\ Len(clients) - mark.clients = 2

\* C9: lookups for two pairs (collection name, connection) that differ in a
\* component return distinct clients, each bound to the collection name and
\* the connection of its own pair.
C9_DistinctPairsDistinctClients ==
    \A p1 \in Collections \X Urls, p2 \in Collections \X Urls :
        LET a == GetVectorClient(Here, p1[1], p1[2])
            b == GetVectorClient(Here, p2[1], p2[2])
        IN  (/\ p1 # p2
             /\ ClientCacheKey(p1[1], p1[2]) \in DOMAIN client_cache
             /\ ClientCacheKey(p2[1], p2[2]) \in DOMAIN client_cache) =>
              /\ a.ret # b.ret
              /\ clients[a.ret].collection_name = p1[1]
              /\ clients[a.ret].connection_url = p1[2]
              /\ clients[b.ret].collection_name = p2[1]
              /\ clients[b.ret].connection_url = p2[2]

\* C10: prewarming is idempotent.  A prewarm call that returns sets the flag;
\* the flag stays set until the reset; a prewarm call made while the flag is
\* set returns without an exception, makes no external call (no model load,
\* no embedding, no connection), builds no client and changes nothing; and
\* this is so from every prewarmed state for every choice of arguments.
C10_PrewarmIsIdempotent ==
    /\ [][ /\ (last'.op = "prewarm_models" /\ last'.exc = NoExc) => prewarmed'
           /\ (prewarmed /\ last'.op # "reset") => prewarmed'
           /\ (prewarmed /\ last'.op = "prewarm_models") =>
                 /\ last'.exc = NoExc /\ last'.calls = <<>> /\ last'.built = 0
                 /\ UNCHANGED <<embedding_cache, client_cache, query_cache,
                                prewarmed, handles, clients, store, mark>> ]_vars
    /\ [](prewarmed =>
            \A models \in Optional(ModelLists), u \in Optional(Urls), f \in 0..3 :
                PrewarmModels(Proc(f), models, u) = Proc(f))

\* A prewarm call has just returned in a process that was already prewarmed.
C10_Witness ==
    /\ last.op = "prewarm_models" /\ last.warm /\ last.exc = NoExc
    /\ prewarmed /\ client_cache # EmptyMap /\ embedding_cache # EmptyMap

\* C11: the prewarm flag is set only by a prewarm call all of whose steps
\* succeeded.  The flag goes from unset to set only in a prewarm call that
\* returns; and from every state where it is unset, for every choice of
\* arguments and every step the environment makes fail, prewarm_models sets
\* the flag exactly when no step failed, the failure of a step leaves as the
\* exception of the call with the flag unset, and when the flag is set every
\* model asked for is registered, every model the call loaded was warmed up
\* right after its load, and the default collection's client is registered.
C11_FlagOnlyAfterSuccess ==
    /\ [][ (~prewarmed /\ prewarmed') =>
               (last'.op = "prewarm_models" /\ last'.exc = NoExc) ]_vars
    /\ [](~prewarmed =>
            \A models \in Optional(ModelLists), u \in Optional(Urls), f \in 0..5 :
                LET r == PrewarmModels(Proc(f), models, u)
                    ms == IF models = None THEN <<DefaultModel>> ELSE models[1]
                    url == IF u = None THEN EnvUrl ELSE u[1]
                    failed == f \in 1..Len(r.trace)
                IN  /\ r.prewarmed <=> ~failed
                    /\ r.prewarmed <=> r.exc = NoExc
                    /\ failed => /\ r.exc = ErrorOf(r.trace[f][1])
                                 /\ Len(r.trace) = f
                    /\ r.prewarmed =>
                          /\ \A i \in 1..Len(ms) : ms[i] \in DOMAIN r.embedding_cache
                          /\ \A i \in 1..Len(r.trace) :
                                (r.trace[i][1] = "load" /\ r.trace[i][2] \in
                                    {ms[j] : j \in 1..Len(ms)}) =>
                                  /\ i < Len(r.trace)
                                  /\ r.trace[i + 1] = <<"embed_query", r.trace[i][2]>>
                          /\ ClientCacheKey(DefaultCollection, url)
                                \in DOMAIN r.client_cache)

\* A prewarm call has just failed partway, at the warm-up embedding of a model
\* it had loaded and registered, and the flag is unset.
C11_Witness ==
    /\ last.op = "prewarm_models" /\ last.exc = "ModelLoadError"
    /\ Len(last.calls) >= 2 /\ last.calls[Len(last.calls)] = "embed_query"
    /\ ~prewarmed /\ embedding_cache # EmptyMap

\* C12: after a prewarm call that ran its steps and returned, a registered
\* client of the default collection has its store handle, and a first query
\* through the default collection's client creates no store handle.
C12_PrewarmConnects ==
    (last.op = "prewarm_models" /\ last.exc = NoExc /\ ~last.warm /\ prewarmed) =>
        /\ \E c \in Self :
              /\ c > mark.clients
              /\ clients[c].collection_name = DefaultCollection
              /\ clients[c].vector_store # None
        /\ \A c \in Self :
              (c > mark.clients /\ clients[c].collection_name = DefaultCollection) =>
                  Count(Query(Here, c, "Go", DefaultK).trace, "PGVector") = 0

\* C13: from every state, fetch_context([]) returns the empty sequence without
\* error, leaves the embedding registry, the client registry, the query cache
\* and the prewarm flag as they were, and makes no model load and no store
\* call.
C13_EmptyFetchHasNoEffect ==
    LET r == FetchContext(Here, <<>>)
    IN  /\ r.exc = NoExc
        /\ r.ret = <<>>
        /\ Caches(r) = Caches(Here)
        /\ r.trace = <<>>

\* C14: for every list of queries, from every state and whichever external
\* call fails, fetch_context_async(queries) returns the result sequence
\* fetch_context(queries) returns from that state (or raises the exception it
\* raises), makes the same external calls and leaves the registries, the
\* query cache, the prewarm flag, the objects and the collection as it leaves
\* them; the worker thread's step is fetch_context from the state it runs in,
\* and the await hands over the worker's outcome and changes nothing.
C14_AsyncEqualsSync ==
    /\ [](\A qs \in QueryLists :
            \A f \in Faults(FetchContext(Here, qs).trace) :
                LET a == FetchContextAsync(Proc(f), qs)
                    b == FetchContext(Proc(f), qs)
                IN  /\ a.exc = b.exc
                    /\ b.exc = NoExc => a.ret = b.ret
                    /\ Caches(a) = Caches(b)
                    /\ a.handles = b.handles /\ a.clients = b.clients
                    /\ a.store = b.store
                    /\ a.trace = b.trace)
    /\ [][ (future.state = "pending" /\ future'.state = "done") =>
              \E f \in Faults(FetchContext(Here, future.queries).trace) :
                  LET b == FetchContext(Proc(f), future.queries)
                  IN  /\ future'.exception = b.exc
                      /\ b.exc = NoExc => future'.result = b.ret
                      /\ <<embedding_cache', client_cache', query_cache',
                           prewarmed'>> = Caches(b)
                      /\ store' = b.store ]_vars
    /\ [][ (future.state = "done" /\ future'.state = "returned") =>
              /\ last'.op = "fetch_context_async"
              /\ last'.exc = future.exception
              /\ future'.result = future.result
              /\ UNCHANGED <<embedding_cache, client_cache, query_cache,
                             prewarmed, handles, clients, store>> ]_vars

\* fetch_context_async has returned a non-empty result for two queries, and
\* the synchronous call from the state it left returns the same sequence.
C14_Witness ==
    /\ future.state = "returned" /\ last.op = "fetch_context_async"
    /\ future.exception = NoExc /\ future.queries = <<"eu:Go", "Go">>
    /\ Len(future.result) > 0
    /\ FetchContext(Here, future.queries).ret = future.result

\* C15: constructing a client creates no store handle (the lookup that
\* builds it makes no store call and the new client has none), and a client
\* without a handle has one after its first insert_documents or query call
\* that returns.
C15_HandleOnFirstUse ==
    /\ \A c \in Collections, u \in Urls :
          LET r == GetVectorClient(Here, c, u)
          IN  /\ Count(r.trace, "PGVector") = 0
              /\ (r.exc = NoExc /\ r.ret > Len(clients)) =>
                     r.clients[r.ret].vector_store = None
    /\ \A self \in Self :
          clients[self].vector_store = None =>
              /\ \A docs \in DocLists :
                    LET r == InsertDocuments(Here, self, docs)
                    IN  r.exc = NoExc => r.clients[self].vector_store # None
              /\ \A q \in Queries, k \in AllKs :
                    LET r == Query(Here, self, q, k)
                    IN  r.exc = NoExc => r.clients[self].vector_store # None

\* C15 (amended): constructing a client creates no store handle, and a client
\* without a handle gets it in its first call that needs the store: every
\* insert_documents call, and every query call that misses the query cache,
\* starts by making the handle and leaves the client with it when it returns;
\* a query answered from the query cache makes no store call and leaves the
\* client without a handle.  A client that has its handle makes no other, and
\* only insert_documents and query calls give a client its handle.
C15_HandleOnFirstStoreUse ==
    /\ [][ \A c \in 1..Len(clients') :
              /\ c > Len(clients) => clients'[c].vector_store = None
              /\ (c <= Len(clients) /\ clients[c].vector_store = None
                    /\ clients'[c].vector_store # None) =>
                     last'.op \in {"insert_documents", "query"} ]_vars
    /\ [](\A c \in Collections, u \in Urls :
            LET r == GetVectorClient(Here, c, u)
            IN  /\ Count(r.trace, "PGVector") = 0
                /\ (r.exc = NoExc /\ r.ret > Len(clients)) =>
                       r.clients[r.ret].vector_store = None)
    /\ [](\A self \in Self :
            /\ \A docs \in DocLists :
                  LET r == InsertDocuments(Here, self, docs)
                  IN  IF clients[self].vector_store = None
                      THEN /\ r.trace[1][1] = "PGVector"
                           /\ Count(r.trace, "PGVector") = 1
                           /\ r.exc = NoExc => r.clients[self].vector_store # None
                      ELSE /\ Count(r.trace, "PGVector") = 0
                           /\ r.clients[self] = clients[self]
            /\ \A q \in Queries, k \in AllKs :
                  LET r == Query(Here, self, q, k)
                      hit == QueryCacheKey(clients[self].collection_name, q, k)
                                 \in DOMAIN query_cache
                  IN  IF clients[self].vector_store = None /\ ~hit
                      THEN /\ r.trace[1][1] = "PGVector"
                           /\ Count(r.trace, "PGVector") = 1
                           /\ r.exc = NoExc => r.clients[self].vector_store # None
                      ELSE /\ Count(r.trace, "PGVector") = 0
                           /\ r.clients[self] = clients[self]
                           /\ hit => r.trace = <<>>)

\* A query has just been answered from the query cache while a client of the
\* cached collection has no store handle, and a client made its handle before.
C15_Witness ==
    /\ last.op = "query" /\ last.exc = NoExc /\ last.calls = <<>>
    /\ \E self \in Self, k \in Ks :
          /\ clients[self].vector_store = None
          /\ QueryCacheKey(clients[self].collection_name, "Go", k) \in DOMAIN query_cache
    /\ \E self \in Self : clients[self].vector_store # None

C17_FailedSearchIsNotCached ==
    /\ [][ (last'.op = "query" /\ last'.exc = "QueryError") =>
              /\ last'.calls[Len(last'.calls)] = "similarity_search"
              /\ query_cache' = query_cache /\ store' = store ]_vars
    /\ [](\A self \in Self, q \in Queries, k \in AllKs :
            LET key == QueryCacheKey(clients[self].collection_name, q, k)
                at == IF clients[self].vector_store = None THEN 2 ELSE 1
                r == Query(Proc(at), self, q, k)
                j == Query(After(r), self, q, k)
            IN  key \notin DOMAIN query_cache =>
                  /\ r.exc = ErrorOf("similarity_search")
                  /\ r.trace[at] = <<"similarity_search", q>> /\ Len(r.trace) = at
                  /\ r.clients[self].vector_store # None
                  /\ r.query_cache = query_cache
                  /\ key \notin DOMAIN r.query_cache
                  /\ j.exc = NoExc
                  /\ j.trace = <<<<"similarity_search", q>>>>
                  /\ j.ret = Fresh(self, q, k)
                  /\ key \in DOMAIN j.query_cache /\ j.query_cache[key] = j.ret)

\* A search has just failed in a query while the cache holds the result of
\* another query, and rows that mention the query text are in the collection.
C17_Witness ==
    /\ last.op = "query" /\ last.exc = "QueryError"
    /\ last.calls[Len(last.calls)] = "similarity_search"
    /\ query_cache # EmptyMap
    /\ \E k \in Ks : QueryCacheKey(DefaultCollection, "Go", k) \notin DOMAIN query_cache
    /\ \E self \in Self : Fresh(self, "Go", 1) # <<>>

\* C18: when the load of an embedding model fails in a client construction,
\* a client lookup or a prewarm call, the call raises that error, no registry
\* entry exists for the model name afterwards (the entries of the models
\* loaded before it in the call stay), no client is built, and the same call
\* made next invokes the load of that model again and registers it.
C18_FailedLoadIsNotRegistered ==
    /\ [][ (last'.op = "get_vector_client" /\ last'.exc # NoExc) =>
              /\ last'.exc = "ModelLoadError" /\ last'.calls = <<"load">>
              /\ UNCHANGED <<embedding_cache, client_cache, handles, clients>> ]_vars
    /\ [](\A m \in Models, c \in Collections, u \in Urls :
            LET r == ClientInit(Proc(1), u, c, m)
                n == ClientInit(After(r), u, c, m)
            IN  m \notin DOMAIN embedding_cache =>
                  /\ r.exc = ErrorOf("load") /\ r.trace = <<<<"load", m>>>>
                  /\ r.embedding_cache = embedding_cache
                  /\ r.handles = handles /\ r.clients = clients
                  /\ n.exc = NoExc /\ n.trace = <<<<"load", m>>>>
                  /\ m \in DOMAIN n.embedding_cache
                  /\ n.embedding_cache[m] = Len(handles) + 1)
    /\ [](\A c \in Collections, u \in Urls :
            LET r == GetVectorClient(Proc(1), c, u)
                n == GetVectorClient(After(r), c, u)
            IN  (ClientCacheKey(c, u) \notin DOMAIN client_cache
                   /\ DefaultModel \notin DOMAIN embedding_cache) =>
                  /\ r.exc = ErrorOf("load") /\ r.trace = <<<<"load", DefaultModel>>>>
                  /\ Caches(r) = Caches(Here)
                  /\ r.handles = handles /\ r.clients = clients
                  /\ n.exc = NoExc /\ n.trace = <<<<"load", DefaultModel>>>>
                  /\ DefaultModel \in DOMAIN n.embedding_cache)
    /\ [](\A models \in Optional(ModelLists), u \in Optional(Urls) :
            \A f \in Faults(PrewarmModels(Here, models, u).trace) :
                LET t0 == PrewarmModels(Here, models, u).trace
                    r == PrewarmModels(Proc(f), models, u)
                    n == PrewarmModels(After(r), models, u)
                IN  (f > 0 /\ t0[f][1] = "load") =>
                      /\ r.exc = ErrorOf("load") /\ Len(r.trace) = f
                      /\ t0[f][2] \notin DOMAIN r.embedding_cache
                      /\ \A x \in DOMAIN r.embedding_cache :
                            \/ x \in DOMAIN embedding_cache
                                 /\ r.embedding_cache[x] = embedding_cache[x]
                            \/ \E i \in 1..(f - 1) : t0[i] = <<"load", x>>
                      /\ r.clients = clients /\ r.client_cache = client_cache
                      /\ ~r.prewarmed
                      /\ n.exc = NoExc
                      /\ Loads(n.trace, t0[f][2]) = 1
                      /\ t0[f][2] \in DOMAIN n.embedding_cache)

\* The load of the second model of a prewarm call has just failed: the first
\* model is registered, the second is not.
C18_Witness ==
    /\ last.op = "prewarm_models" /\ last.exc = "ModelLoadError"
    /\ last.calls = <<"load", "embed_query", "load">>
    /\ ProcessorModel \in DOMAIN embedding_cache
    /\ DefaultModel \notin DOMAIN embedding_cache

LoweredAndTrimmed(email) ==
    LET low == [i \in 1..Len(email) |-> IF email[i] = "A" THEN "a" ELSE email[i]]
        inked == {i \in 1..Len(low) : low[i] # " "}
    IN  IF inked = {} THEN <<>>
        ELSE SubSeq(low, CHOOSE i \in inked : \A j \in inked : i <= j,
                         CHOOSE i \in inked : \A j \in inked : i >= j)

\* C20: create_user with an email that, lowercased and trimmed, equals the
\* lowercased and trimmed email of a stored user raises UserAlreadyExistsError
\* and leaves the stored users as they are; with any other email it stores one
\* new user under the lowercased and trimmed email; and no two stored users
\* share a lowercased and trimmed email.
C20_NormalizedEmailIsUnique ==
    /\ [][ (last'.op = "create_user" /\ last'.exc # NoExc) =>
              /\ last'.exc = "UserAlreadyExistsError" /\ users' = users ]_vars
    /\ [](\A email \in Emails, password \in Passwords :
            LET r == CreateUser(Db, email, password)
            IN  IF \E i \in 1..Len(users) :
                       LoweredAndTrimmed(users[i].email) = LoweredAndTrimmed(email)
                THEN /\ r.exc = "UserAlreadyExistsError"
                     /\ r.users = users
                ELSE /\ r.exc = NoExc
                     /\ Len(r.users) = Len(users) + 1
                     /\ SubSeq(r.users, 1, Len(users)) = users
                     /\ r.users[Len(r.users)].email = LoweredAndTrimmed(email)
                     /\ r.ret = r.users[Len(r.users)])
    /\ [](\A i, j \in 1..Len(users) :
            LoweredAndTrimmed(users[i].email) = LoweredAndTrimmed(users[j].email)
                => i = j)

\* create_user has just refused an email while two users are stored, one of
\* them under an email with a blank inside.
C20_Witness ==
    /\ last.op = "create_user" /\ last.exc = "UserAlreadyExistsError"
    /\ Len(users) = 2
    /\ \E i \in 1..Len(users) : users[i].email = <<"a", " ", "a">>

\* The value of a field of a Resume object as a caller reads it
FieldOf(obj, name) ==
    IF name \in DOMAIN obj.row THEN obj.row[name]
    ELSE IF name \in DOMAIN obj.attrs THEN obj.attrs[name]
    ELSE <<"AttributeError">>

\* C21: update_resume on a stored resume sets every field passed as non-None
\* to the value passed, as the resume reads when it is fetched afterwards, and
\* leaves every other column of the resume and every other resume as they
\* were; with no field argument it changes nothing and returns the resume;
\* with an id that is not stored it returns None and changes nothing.
C21_UpdateChangesExactlyTheFieldsPassed ==
    \A id \in ResumeIds, S \in SUBSET {UpdateFields[n] : n \in 1..Len(UpdateFields)},
       v \in Texts :
        LET args == FieldArgs(S, v)
            r == UpdateResume(ResumeDb, id, args)
            got == GetResume(r, id).ret
        IN  IF id \notin DOMAIN resumes
            THEN r.ret = None /\ r.resumes = resumes /\ r.exc = NoExc
            ELSE /\ r.exc = NoExc
                 /\ DOMAIN r.resumes = DOMAIN resumes
                 /\ \A other \in DOMAIN resumes \ {id} :
                       r.resumes[other] = resumes[other]
                 /\ \A name \in S : FieldOf(got, name) = <<v>>
                 /\ \A name \in DOMAIN resumes[id] \ S :
                       r.resumes[id][name] = resumes[id][name]
                 /\ S = {} => /\ r.resumes = resumes
                              /\ r.ret.row = resumes[id]

\* C22: a prewarm call made while the flag is unset, when no step fails, ends
\* with every model of its list (the default model when none is given)
\* registered, and makes exactly one warm-up embedding call on each of them,
\* after the load of the model if the call loads it, whether or not the model
\* was registered before the call.
C22_EveryListedModelIsWarmedUp ==
    ~prewarmed =>
        \A models \in Optional(ModelLists), u \in Optional(Urls) :
            LET r == PrewarmModels(Here, models, u)
                ms == IF models = None THEN <<DefaultModel>> ELSE models[1]
            IN  \A i \in 1..Len(ms) :
                    /\ ms[i] \in DOMAIN r.embedding_cache
                    /\ Cardinality({n \in 1..Len(r.trace) :
                                      r.trace[n] = <<"embed_query", ms[i]>>}) = 1
                    /\ \A n \in 1..Len(r.trace) :
                          r.trace[n] = <<"load", ms[i]>> =>
                              /\ n < Len(r.trace)
                              /\ r.trace[n + 1] = <<"embed_query", ms[i]>>

\* C23: the reset leaves the two registries and the query cache empty and the
\* prewarm flag unset, as in a process that has just started, and touches
\* nothing else.  After it, a client lookup for any key loads the default
\* model and builds a new client without a store handle; a query for any
\* (collection, query text, k), on a client held from before or on a new one,
\* searches the store; and a prewarm call runs in full: it loads and warms up
\* every model of its list, builds and registers the default client and sets
\* the flag.
C23_ResetIsCold ==
    /\ [][ last'.op = "reset" =>
              /\ embedding_cache' = EmptyMap /\ client_cache' = EmptyMap
              /\ query_cache' = EmptyMap /\ prewarmed' = FALSE
              /\ UNCHANGED <<handles, clients, store>> ]_vars
    /\ [](LET R == After(ResetCaches(Here))
          IN  /\ \A c \in Collections, u \in Urls :
                    LET g == GetVectorClient(R, c, u)
                    IN  /\ g.trace = <<<<"load", DefaultModel>>>>
                        /\ g.ret = Len(clients) + 1
                        /\ Len(g.clients) = Len(clients) + 1
                        /\ g.clients[g.ret].vector_store = None
                        /\ g.clients[g.ret].embeddings = Len(handles) + 1
                        /\ \A q \in Queries, k \in AllKs :
                              Query(After(g), g.ret, q, k).trace =
                                  <<<<"PGVector", c>>, <<"similarity_search", q>>>>
              /\ \A self \in Self, q \in Queries, k \in AllKs :
                    LET r == Query(R, self, q, k)
                    IN  /\ Count(r.trace, "similarity_search") = 1
                        /\ r.ret = Fresh(self, q, k)
              /\ \A models \in Optional(ModelLists), u \in Optional(Urls) :
                    LET r == PrewarmModels(R, models, u)
                        ms == IF models = None THEN <<DefaultModel>> ELSE models[1]
                    IN  /\ r.exc = NoExc /\ r.prewarmed
                        /\ \A i \in 1..Len(ms) :
                              /\ r.trace[2 * i - 1] = <<"load", ms[i]>>
                              /\ r.trace[2 * i] = <<"embed_query", ms[i]>>
                        /\ Len(r.clients) = Len(clients) + 1
                        /\ DOMAIN r.client_cache =
                              {ClientCacheKey(DefaultCollection,
                                              IF u = None THEN EnvUrl ELSE u[1])}
                        /\ DefaultModel \in DOMAIN r.embedding_cache)

\* The caches have just been reset after a prewarm: a client built before the
\* reset still has its store handle, and rows are in the collection.
C23_Witness ==
    /\ last.op = "reset" /\ last.warm
    /\ \E self \in Self : clients[self].vector_store # None
    /\ store[<<EnvUrl, DefaultCollection>>] # <<>>

\* The registry key and the query-cache key of a fetch_context(["Go"]) call,
\* and the rows of the collection it searches
LookupKey == ClientCacheKey(DefaultCollection, EnvUrl)
EntryKey == QueryCacheKey(DefaultCollection, ThreadQuery, DefaultK)
StoredRows == store[<<EnvUrl, DefaultCollection>>]
Finished(t) == threads[t].pc = "done"

\* C24: when concurrent first lookups of one key on cold caches finish, each
\* registry holds exactly one entry for the key and it is the one written last
\* (a store into a registry replaces the entry with the writer's own instance),
\* the registered client is a whole client on a loaded instance of the model,
\* the cached query entry is the complete result of one search of the
\* collection, and every caller that started on a cold query cache has the
\* result of searching the collection.
C24_ConcurrentFirstLookups ==
    /\ [][\A t \in Threads :
            /\ (threads[t].pc = "client_store" /\ threads'[t].pc = "client_return")
                  => /\ DOMAIN client_cache' = {LookupKey}
                     /\ client_cache'[LookupKey] = threads[t].client
            /\ (threads[t].pc = "model_store" /\ threads'[t].pc = "client_init")
                  => /\ DOMAIN embedding_cache' = {DefaultModel}
                     /\ embedding_cache'[DefaultModel] = threads[t].h]_vars
    /\ [](\A t \in Threads : Finished(t) =>
            /\ DOMAIN client_cache = {LookupKey}
            /\ DOMAIN embedding_cache = {DefaultModel}
            /\ handles[embedding_cache[DefaultModel]] = DefaultModel
            /\ clients[client_cache[LookupKey]].collection_name = DefaultCollection
            /\ clients[client_cache[LookupKey]].connection_url = EnvUrl
            /\ handles[clients[client_cache[LookupKey]].embeddings] = DefaultModel
            /\ DOMAIN query_cache = {EntryKey}
            /\ \E n \in 0..Len(StoredRows) :
                  query_cache[EntryKey] =
                      SimilaritySearch(SubSeq(StoredRows, 1, n), ThreadQuery, DefaultK)
            /\ threads[t].cold =>
                  threads[t].results =
                      SimilaritySearch(StoredRows, ThreadQuery, DefaultK))

\* Both callers have finished a lookup that began cold; the model was loaded
\* twice and two clients were built, the second writer's client is the one
\* registered, and both callers hold the stored document.
C24_Witness ==
    /\ \A t \in Threads : Finished(t) /\ threads[t].cold
                          /\ threads[t].h # 0 /\ threads[t].client # 0
                          /\ Len(threads[t].results) = 1
    /\ threads[1].h # threads[2].h
    /\ threads[1].client # threads[2].client
    /\ threads[1].self = threads[2].client
    /\ threads[2].self = threads[2].client
    /\ client_cache[LookupKey] = threads[2].client

\* The documents of a result sequence
Range(seq) == { seq[n] : n \in 1..Len(seq) }

TriplesOf(key) ==
    { x \in Collections \X Queries \X Ks : QueryCacheKey(x[1], x[2], x[3]) = key }
PairsOf(key) ==
    { x \in Collections \X Urls : ClientCacheKey(x[1], x[2]) = key }

\* C26: the string keys are injective: every query-cache entry is the entry
\* of one (collection_name, query_text, k) triple only, and every
\* client-registry entry is the entry of one (collection_name, connection_url)
\* pair only, also for strings that contain ':'.
C26_KeysAreInjective ==
    /\ \A key \in DOMAIN query_cache : Cardinality(TriplesOf(key)) = 1
    /\ \A key \in DOMAIN client_cache : Cardinality(PairsOf(key)) = 1

\* What a call on client self, having run to r from the current state, has
\* done to the store handles
HandleKept(self, r) ==
    IF clients[self].vector_store # None
    THEN /\ Count(r.trace, "PGVector") = 0
         /\ r.clients = clients
    ELSE /\ Count(r.trace, "PGVector") <= 1
         /\ r.clients[self].vector_store # None => Count(r.trace, "PGVector") = 1
         /\ \A c \in 1..Len(clients) : c # self => r.clients[c] = clients[c]

\* C27: the store handle of a client goes from uninitialized to ready at most
\* once: no insert_documents, query, query_batch or get_vs call, failing or
\* not, replaces or resets a handle that is set or calls the store constructor
\* for a client that has one; a call on a client without a handle calls the
\* constructor at most once, and exactly once when it leaves the handle set.
C27_HandleSetAtMostOnce ==
    /\ [][\A c \in 1..Len(clients) :
            clients[c].vector_store # None =>
                clients'[c].vector_store = clients[c].vector_store]_vars
    /\ [](\A self \in 1..Len(clients) :
            /\ \A docs \in DocLists :
                 \A f \in Faults(InsertDocuments(Here, self, docs).trace) :
                    HandleKept(self, InsertDocuments(Proc(f), self, docs))
            /\ \A q \in Queries, k \in AllKs :
                 \A f \in Faults(Query(Here, self, q, k).trace) :
                    HandleKept(self, Query(Proc(f), self, q, k))
            /\ \A qs \in BatchLists, k \in AllKs :
                 \A f \in Faults(QueryBatch(Here, self, qs, k).trace) :
                    HandleKept(self, QueryBatch(Proc(f), self, qs, k))
            /\ \A f \in Faults(GetVs(Here, self).trace) :
                    HandleKept(self, GetVs(Proc(f), self)))

\* get_vs has just returned the handle of a client whose handle was made by
\* an earlier call, without a constructor call; rows and a cached result exist.
C27_Witness ==
    /\ last.op = "get_vs" /\ last.exc = NoExc /\ last.calls = <<>>
    /\ \E self \in 1..Len(clients) : clients[self].vector_store # None
    /\ query_cache # EmptyMap
    /\ store[<<EnvUrl, DefaultCollection>>] # <<>>

\* The text of the query that is running when external call number f of a
\* batch with external calls T fails, and the first place of a text in a batch
FailingQuery(T, f) ==
    T[CHOOSE n \in f..Len(T) :
        /\ T[n][1] = "similarity_search"
        /\ \A m \in f..(n - 1) : T[m][1] # "similarity_search"][2]
FirstAt(qs, text) ==
    CHOOSE n \in 1..Len(qs) : qs[n] = text /\ \A m \in 1..(n - 1) : qs[m] # text
KeyOf(self, q, k) == QueryCacheKey(clients[self].collection_name, q, k)

\* What a batch that failed in query number i, leaving r, has raised and has
\* done to the entries of its queries 1..i-1
FailedAt(self, qs, k, i, r, call) ==
    /\ Raised(r) /\ r.exc = ErrorOf(call)
    /\ \A n \in 1..(i - 1) :
         /\ KeyOf(self, qs[n], k) \in DOMAIN r.query_cache
         /\ r.query_cache[KeyOf(self, qs[n], k)] =
               IF KeyOf(self, qs[n], k) \in DOMAIN query_cache
               THEN query_cache[KeyOf(self, qs[n], k)]
               ELSE Fresh(self, qs[n], k)

\* C28: when query number i of a query_batch fails, the batch raises that
\* error, the results of queries 1..i-1 are in the query cache, and there is
\* no entry for query i or for any later query that had none before the call.
C28_FailedBatchCachesOnlyEarlier ==
    \A self \in Self, qs \in RepeatLists, k \in Ks :
      LET T == QueryBatch(Here, self, qs, k).trace
      IN  \A f \in 1..Len(T) :
            LET r == QueryBatch(Proc(f), self, qs, k)
                i == FirstAt(qs, FailingQuery(T, f))
            IN  /\ FailedAt(self, qs, k, i, r, T[f][1])
                /\ \A n \in i..Len(qs) :
                      KeyOf(self, qs[n], k) \notin DOMAIN query_cache
                          => KeyOf(self, qs[n], k) \notin DOMAIN r.query_cache

\* C28 as amended: when query number i of a query_batch fails, the batch
\* raises that error, the results of queries 1..i-1 are in the query cache,
\* every entry there was before is unchanged, and the only new entries are
\* those of queries 1..i-1: there is none for query i, nor for a later query
\* that had none before the call unless its text is that of one of 1..i-1.
C28_FailedBatchCachesEarlierTexts ==
    \A self \in Self, qs \in RepeatLists, k \in Ks :
      LET T == QueryBatch(Here, self, qs, k).trace
      IN  \A f \in 1..Len(T) :
            LET r == QueryBatch(Proc(f), self, qs, k)
                i == FirstAt(qs, FailingQuery(T, f))
            IN  /\ FailedAt(self, qs, k, i, r, T[f][1])
                /\ DOMAIN r.query_cache =
                      DOMAIN query_cache
                          \cup { KeyOf(self, qs[n], k) : n \in 1..(i - 1) }
                /\ \A key \in DOMAIN query_cache :
                      r.query_cache[key] = query_cache[key]
                /\ KeyOf(self, qs[i], k) \notin DOMAIN r.query_cache
                /\ \A n \in i..Len(qs) :
                      (/\ KeyOf(self, qs[n], k) \notin DOMAIN query_cache
                       /\ \A m \in 1..(i - 1) : qs[m] # qs[n])
                          => KeyOf(self, qs[n], k) \notin DOMAIN r.query_cache

\* A batch has just failed in the search of its second query, after the
\* search of its first: the first text has its entry, the second has none.
C28_Witness ==
    /\ last.op = "query_batch" /\ last.exc = "QueryError"
    /\ Len(last.calls) >= 2
    /\ last.calls[Len(last.calls) - 1] = "similarity_search"
    /\ \E k \in Ks :
         /\ QueryCacheKey(DefaultCollection, "Go", k) \in DOMAIN query_cache
         /\ query_cache[QueryCacheKey(DefaultCollection, "Go", k)] # <<>>
         /\ QueryCacheKey(DefaultCollection, "eu:Go", k) \notin DOMAIN query_cache

\* Model m has had a warm-up embedding call that returned, in a failed
\* prewarm call that left r or in the call after it that left s
WarmedUp(m, r, s) ==
    \/ \E n \in 1..(Len(r.trace) - 1) : r.trace[n] = <<"embed_query", m>>
    \/ \E n \in 1..Len(s.trace) : s.trace[n] = <<"embed_query", m>>

\* C29: in a process with empty registries, when a prewarm call fails partway
\* and the same call is made again and succeeds, the process is as after one
\* successful prewarm: every listed model is registered and has had its
\* warm-up embedding call, the default client exists, and the flag is true.
C29_RetryCompletesThePrewarm ==
    (~prewarmed /\ embedding_cache = EmptyMap /\ client_cache = EmptyMap) =>
        \A models \in Optional(ModelLists), u \in Optional(Urls) :
            LET T == PrewarmModels(Here, models, u).trace
                ms == IF models = None THEN <<DefaultModel>> ELSE models[1]
                url == IF u = None THEN EnvUrl ELSE u[1]
            IN  \A f \in 1..Len(T) :
                  LET r == PrewarmModels(Proc(f), models, u)
                      s == PrewarmModels(After(r), models, u)
                  IN  /\ Raised(r) /\ ~r.prewarmed
                      /\ ~Raised(s) /\ s.prewarmed
                      /\ DOMAIN s.embedding_cache =
                            DOMAIN PrewarmModels(Here, models, u).embedding_cache
                      /\ DOMAIN s.client_cache =
                            {ClientCacheKey(DefaultCollection, url)}
                      /\ \A i \in 1..Len(ms) :
                            /\ ms[i] \in DOMAIN s.embedding_cache
                            /\ WarmedUp(ms[i], r, s)

\* C30: reads of one cache key are monotonic under concurrency: a
\* fetch_context call that starts after some call has returned a result of the
\* collection with a number of ingested rows in it never returns a result
\* with fewer, while queries for the key run concurrently with each other and
\* with an ingestion into the collection.
C30_ReadsAreMonotonic ==
    \A t \in Threads :
        Finished(t) => Len(threads[t].results) >= threads[t].floor

====
